---- MODULE Spec2Model ----
(***************************************************************************)
(* Model of the smart-commit tracker (apps/tracker): the commit message    *)
(* parser and time-log reconciler of GithubCommit, and the branch / commit *)
(* reconcilers of tasks.py.                                                *)
(*                                                                         *)
(* Text (commit messages, branch names, task ids) is a sequence of         *)
(* one-character strings, so that the regular expressions of the source    *)
(* are modelled by what they do on the characters.                         *)
(***************************************************************************)
EXTENDS Integers, Sequences, FiniteSets, TLC

\* None in a field that otherwise holds text (such a field never holds "")
NoText == <<>>

\* None where a number is expected
NoNumber == -1

SetMax(S) == CHOOSE x \in S : \A y \in S : y <= x
SetMin(S) == CHOOSE x \in S : \A y \in S : x <= y

(***************************************************************************)
(* Character classes of the patterns in models.py and tasks.py.            *)
(***************************************************************************)
Digits == {"0", "1", "2", "3", "4", "5", "6", "7", "8", "9"}

LowerLetters ==
    {"a", "b", "c", "d", "e", "f", "g", "h", "i", "j", "k", "l", "m",
     "n", "o", "p", "q", "r", "s", "t", "u", "v", "w", "x", "y", "z"}

UpperLetters ==
    {"A", "B", "C", "D", "E", "F", "G", "H", "I", "J", "K", "L", "M",
     "N", "O", "P", "Q", "R", "S", "T", "U", "V", "W", "X", "Y", "Z"}

\* [A-Za-z0-9._-]
TaskIdChars == LowerLetters \cup UpperLetters \cup Digits \cup {".", "_", "-"}

\* \s
Whitespace == {" ", "\t", "\n"}

\* [\.,;:!\?\)\]]
Terminators == {".", ",", ";", ":", "!", "?", ")", "]"}

\* h and m under re.IGNORECASE
IsH(c) == c \in {"h", "H"}
IsM(c) == c \in {"m", "M"}

DigitVal(c) ==
    CASE c = "0" -> 0 [] c = "1" -> 1 [] c = "2" -> 2 [] c = "3" -> 3
      [] c = "4" -> 4 [] c = "5" -> 5 [] c = "6" -> 6 [] c = "7" -> 7
      [] c = "8" -> 8 [] c = "9" -> 9

\* int(s) for a string of decimal digits
RECURSIVE ToInt(_)
ToInt(s) ==
    IF s = <<>> THEN 0
    ELSE 10 * ToInt(SubSeq(s, 1, Len(s) - 1)) + DigitVal(s[Len(s)])

\* The number of consecutive characters of class cls in s from position p on.
RECURSIVE RunLen(_, _, _)
RunLen(s, p, cls) ==
    IF p <= Len(s) /\ s[p] \in cls THEN 1 + RunLen(s, p + 1, cls) ELSE 0

(***************************************************************************)
(* The smart-commit pattern of refresh_time_log_from_message, matched the  *)
(* way a backtracking engine matches it: greedy quantifiers first, shorter *)
(* repetitions on failure, the left alternative before the right one.      *)
(* Positions are 1-based; an "end" is the position after the last matched  *)
(* character; 0 is "no match".                                             *)
(***************************************************************************)

\* (?=\s|$|[\.,;:!\?\)\]]) at position e
LookaheadAlways(s, e) == TRUE

Lookahead(s, e) ==
    \/ e > Len(s)
    \/ s[e] \in Whitespace
    \/ s[e] \in Terminators

\* \d{k}h(?:\d+m)? at p, then the lookahead
HourFormEnd(s, p, k) ==
    IF ~(p + k <= Len(s) /\ IsH(s[p + k])) THEN 0
    ELSE LET q == p + k + 1
             js == {j \in 1 .. RunLen(s, q, Digits) :
                      /\ q + j <= Len(s)
                      /\ IsM(s[q + j])
                      /\ Lookahead(s, q + j + 1)}
         IN  IF js # {} THEN q + SetMax(js) + 1
             ELSE IF Lookahead(s, q) THEN q
             ELSE 0

\* \d{k}m at p, then the lookahead
MinuteFormEnd(s, p, k) ==
    IF p + k <= Len(s) /\ IsM(s[p + k]) /\ Lookahead(s, p + k + 1)
    THEN p + k + 1
    ELSE 0

\* (\d+h(?:\d+m)?|\d+m) at p, then the lookahead
TimeEnd(s, p) ==
    LET Of(run) ==
          LET hs == {k \in 1 .. run : HourFormEnd(s, p, k) # 0}
              ms == {k \in 1 .. run : MinuteFormEnd(s, p, k) # 0}
          IN  IF hs # {} THEN HourFormEnd(s, p, SetMax(hs))
              ELSE IF ms # {} THEN MinuteFormEnd(s, p, SetMax(ms))
              ELSE 0
    IN  Of(RunLen(s, p, Digits))

NoMatch == [matched |-> FALSE]

\* #(?P<task_id>[A-Za-z0-9._-]+)\s+(?P<time_task>...) at i
TaskFormAt(s, i) ==
    IF ~(i <= Len(s) /\ s[i] = "#") THEN NoMatch
    ELSE LET \* the match with n characters of task id and the time token from
             \* t to e
             Groups(n, t, e) ==
                 [matched |-> TRUE, start |-> i, end |-> e,
                  task_id |-> SubSeq(s, i + 1, i + n),
                  time_task |-> SubSeq(s, t, e - 1),
                  time_only |-> NoText]
             \* the splits <<n, w>>: n characters of task id, w of whitespace;
             \* the longest task id first, then the longest whitespace
             Of(splits) ==
                 IF splits = {} THEN NoMatch
                 ELSE LET Cut(nw) ==
                            Groups(nw[1], i + 1 + nw[1] + nw[2],
                                   TimeEnd(s, i + 1 + nw[1] + nw[2]))
                      IN  Cut(CHOOSE nw \in splits : \A o \in splits :
                                \/ o[1] < nw[1]
                                \/ o[1] = nw[1] /\ o[2] <= nw[2])
         IN  Of({nw \in (1 .. RunLen(s, i + 1, TaskIdChars)) \X (1 .. Len(s)) :
                   /\ nw[2] <= RunLen(s, i + 1 + nw[1], Whitespace)
                   /\ TimeEnd(s, i + 1 + nw[1] + nw[2]) # 0})

\* ~(?P<time_only>...) at i
TimeOnlyAt(s, i) ==
    IF ~(i <= Len(s) /\ s[i] = "~") THEN NoMatch
    ELSE LET Of(e) ==
               IF e = 0 THEN NoMatch
               ELSE [matched |-> TRUE, start |-> i, end |-> e,
                     task_id |-> NoText, time_task |-> NoText,
                     time_only |-> SubSeq(s, i + 1, e - 1)]
         IN  Of(TimeEnd(s, i + 1))

\* the whole pattern anchored at i: the left alternative, else the right one
MatchAt(s, i) ==
    LET Or(left) == IF left.matched THEN left ELSE TimeOnlyAt(s, i)
    IN  Or(TaskFormAt(s, i))

\* pattern.search(message): the match at the leftmost position that has one
SearchLast(s) ==
    LET Of(ms) == IF ms = {} THEN NoMatch
                  ELSE CHOOSE m \in ms : \A o \in ms : o.start <= m.start
    IN  Of({m \in {MatchAt(s, i) : i \in 1 .. Len(s)} : m.matched})

Search(s) ==
    LET Of(ms) == IF ms = {} THEN NoMatch
                  ELSE CHOOSE m \in ms : \A o \in ms : m.start <= o.start
    IN  Of({m \in {MatchAt(s, i) : i \in 1 .. Len(s)} : m.matched})

\* re.search(r"(?i)(\d+)<unit>", time_token).group(1), as a number; NoNumber
\* if the search fails.  unit is "h" or "m".
UnitNumber(tok, unit) ==
    LET IsUnit(c) == IF unit = "h" THEN IsH(c) ELSE IsM(c)
        \* a match at i takes the whole digit run from i (a shorter one would
        \* be followed by a digit, not by the unit)
        Hit(i, r) == r >= 1 /\ i + r <= Len(tok) /\ IsUnit(tok[i + r])
        Of(hits) ==
            IF hits = {} THEN NoNumber
            ELSE LET At(i) == ToInt(SubSeq(tok, i, i + RunLen(tok, i, Digits) - 1))
                 IN  At(SetMin(hits))
    IN  Of({i \in 1 .. Len(tok) : Hit(i, RunLen(tok, i, Digits))})

\* total_minutes of a time token
TotalMinutesNoHours(tok) ==
    LET Sum(m) == IF m = NoNumber THEN 0 ELSE m
    IN  Sum(UnitNumber(tok, "m"))

TotalMinutes(tok) ==
    LET Sum(h, m) == (IF h = NoNumber THEN 0 ELSE h * 60)
                     + (IF m = NoNumber THEN 0 ELSE m)
    IN  Sum(UnitNumber(tok, "h"), UnitNumber(tok, "m"))

NoDraft == [found |-> FALSE]

\* "if total_minutes <= 0: ... return": a token of no minutes is no draft
ParsedAnyTotal(task_id, parsed_repr, total) ==
    [found |-> TRUE, total_minutes |-> total,
     task_id |-> task_id, parsed_from_message |-> parsed_repr]

Parsed(task_id, parsed_repr, total) ==
    IF total <= 0 THEN NoDraft
    ELSE [found |-> TRUE, total_minutes |-> total,
          task_id |-> task_id, parsed_from_message |-> parsed_repr]

\* What refresh_time_log_from_message derives from the message before it
\* touches the time log: nothing (no match, or a total of 0 minutes), or the
\* minutes, the task id and the normalised text of the token.
Draft(message) ==
    LET Of(m) ==
            IF ~m.matched THEN NoDraft
            ELSE IF m.time_task # NoText
            THEN Parsed(m.task_id, <<"#">> \o m.task_id \o <<" ">> \o m.time_task,
                        TotalMinutes(m.time_task))
            ELSE Parsed(NoText, <<"~">> \o m.time_only, TotalMinutes(m.time_only))
    IN  Of(Search(message))

(***************************************************************************)
(* The data.  A row of a table is a record; a table is a set of rows.      *)
(* Branch rows are identified by <<repo, name>>, commit rows by            *)
(* <<branch, sha, copy>> and time-log rows by <<commit, copy>>: copy tells *)
(* apart rows that agree on the columns a unique constraint names, and is  *)
(* 1 as long as the constraint holds.                                      *)
(***************************************************************************)
VARIABLES
    cfg,        \* the GithubConfiguration row (GithubConfiguration.objects.first())
    tasks,      \* the ClickupTask rows
    repos,      \* the GithubRepo rows: repo id -> row
    branches,   \* the GithubBranch rows
    commits,    \* the GithubCommit rows
    timeLogs,   \* the GithubCommitTimeLog rows
    ghBranches, \* the code host: repo id -> the names of its branches
    ghCommits,  \* the code host: <<repo, name>> -> (sha -> message)
    now,        \* timezone.now()
    last,       \* what the operation that ran last did and returned
    ptl,        \* a process_commit_time_log task running beside the rest
    workers,    \* sync_repo tasks of several repositories running side by side
    pmsg,       \* the parser on its own: the message typed so far
    pdraft      \* the parser on its own: what the parse of pmsg gave

dbVars     == <<cfg, tasks, repos, branches, commits, timeLogs>>
ghVars     == <<ghBranches, ghCommits>>
parserVars == <<pmsg, pdraft>>
vars == <<cfg, tasks, repos, branches, commits, timeLogs, ghBranches, ghCommits,
          now, last, ptl, workers, pmsg, pdraft>>

\* None in a DateTimeField
NoTime == -1

\* None in a foreign key to ClickupTask (task ids are 1, 2, ...)
NoTask == 0

\* The last time the clock shows.
MaxTime == 1

RepoIds == {"r1"}

Name_main == <<"m", "a", "i", "n">>
Name_feat == <<"f", "e", "a", "t", "/", "I", "-", "0", "0", "2">>

BranchNames == {Name_main, Name_feat}

\* the order in which the code host lists branches
BranchOrder == <<Name_feat, Name_main>>

Shas == {"s1", "s2"}

\* the order in which the code host lists commits: newest first
ShaOrder == <<"s2", "s3", "s1">>

\* A commit's author and date are fixed by its sha.
ShaDate(sha) == IF sha = "s2" THEN 1 ELSE 0

\* s3: a commit of another account, with no author email
ShaAuthor(sha) ==
    IF sha = "s1" THEN [login |-> "dev", email |-> "dev@corp"]
    ELSE IF sha = "s2" THEN [login |-> "dev", email |-> "dev@home"]
    ELSE [login |-> "bot", email |-> ""]

Msg_wip  == <<"w", "i", "p">>
Msg_task == <<"#", "I", "-", "0", "0", "2", " ", "1", "h">>
Msg_45   == <<"~", "4", "5", "m", ".">>
Msg_zero == <<"#", "T", "1", " ", "0", "h", "0", "m">>

Messages == {Msg_wip, Msg_task, Msg_45, Msg_zero}

Task_I002 ==
    [id |-> 1, clickup_id |-> <<"8", "6", "c", "1">>, user_friendly_id |-> <<"I", "-", "0", "0", "2">>]

TaskPool == {Task_I002}

DevCfg ==
    [exists |-> TRUE, personal_access_token |-> TRUE, username |-> "dev",
     preferred_author_emails |-> {}]

\* Draft on the messages of the pool, computed once.
DraftTable == [m \in Messages |-> Draft(m)]

DraftOf(message) ==
    IF message \in Messages THEN DraftTable[message] ELSE Draft(message)

(***************************************************************************)
(* GithubCommitTimeLog and GithubCommit.refresh_time_log_from_message.     *)
(***************************************************************************)
CommitKey(c) == <<c.branch, c.sha, c.copy>>

LogsOf(logs, ck) == {l \in logs : l.commit = ck}

\* Two sync_branch_commits tasks of one branch running side by side, and
\* where each of them is; a task that has not started holds nothing.
Racers == {1, 2}

RacerIdle ==
    [pc |-> "idle", items |-> <<>>, obj |-> {}, seen |-> {}, lost |-> {}, raised |-> ""]

RaceRuns == IF workers.phase = "race" THEN workers.run ELSE [i \in Racers |-> RacerIdle]

\* The time-log rows a task still holds as objects it read earlier.
HeldLogs ==
    (IF ptl.phase = "read" THEN ptl.seen ELSE {})
      \cup UNION {RaceRuns[i].seen : i \in Racers}

\* The copy number of a new time-log row of commit ck: the first that no row
\* of the commit has, nor an object of such a row that is still held (a new
\* row never gets the primary key of an old one).
NewCopy(logs, ck) ==
    SetMin({k \in 1 .. Cardinality(logs) + Cardinality(HeldLogs) + 1 :
              \A l \in LogsOf(logs, ck) \cup LogsOf(HeldLogs, ck) : l.copy # k})

\* GithubCommitTimeLog.objects.create(...): commit is a OneToOneField, so the
\* insert of a second row for a commit fails (IntegrityError).
TimeLogCreateNotUnique(logs, row) ==
    [logs  |-> logs \cup {[row EXCEPT !.copy = NewCopy(logs, row.commit)]},
     op    |-> "create"]

TimeLogCreate(logs, row) ==
    IF LogsOf(logs, row.commit) # {}
    THEN [logs |-> logs, op |-> "IntegrityError"]
    ELSE [logs |-> logs \cup {[row EXCEPT !.copy = NewCopy(logs, row.commit)]},
          op |-> "create"]

\* ClickupTask.objects.filter(Q(user_friendly_id=t) | Q(clickup_id=t)).first()
ResolveTaskShortIdOnly(tks, token) ==
    LET hits == {t \in tks : t.user_friendly_id = token}
    IN  IF hits = {} THEN NoTask ELSE SetMin({t.id : t \in hits})

ResolveTask(tks, token) ==
    LET hits == {t \in tks : t.user_friendly_id = token \/ t.clickup_id = token}
    IN  IF hits = {} THEN NoTask ELSE SetMin({t.id : t \in hits})

\* The fields refresh_time_log_from_message sets on the existing row l before
\* log.save(update_fields=...)
UpdateLogIfChanged(l, d, resolved) ==
    [l EXCEPT !.total_minutes = d.total_minutes,
              !.parsed_from_message = d.parsed_from_message,
              !.task_id = d.task_id,
              !.clickup_task = resolved,
              !.is_synced_with_clickup =
                 IF d.total_minutes = l.total_minutes THEN @ ELSE FALSE]

UpdateLog(l, d, resolved) ==
    [l EXCEPT !.total_minutes = d.total_minutes,
              !.parsed_from_message = d.parsed_from_message,
              !.task_id = d.task_id,
              !.clickup_task = resolved,
              !.is_synced_with_clickup = FALSE]

\* refresh_time_log_from_message on the commit ck with the text message,
\* where seen are the time-log rows the lookup of self.time_log found, tks
\* the task rows and branchTask the task of the commit's branch.  Gives the
\* time-log rows afterwards and what was done to them.
refresh_time_log_from_message(logs, tks, branchTask, ck, message, seen) ==
    LET hasLog == Cardinality(seen) = 1
        log    == CHOOSE l \in seen : TRUE
        IsLog(l) == <<l.commit, l.copy>> = <<log.commit, log.copy>>
        \* the draft d and the task it resolves to
        Write(d, resolved) ==
            IF hasLog
            THEN IF \E l \in logs : IsLog(l)
                 THEN [logs |-> {IF IsLog(l) THEN UpdateLog(l, d, resolved) ELSE l :
                                   l \in logs},
                       op |-> "update"]
                 \* save(update_fields=...) of a row that is gone
                 ELSE [logs |-> logs, op |-> "DatabaseError"]
            ELSE TimeLogCreate(logs,
                   [commit |-> ck, copy |-> 1,
                    total_minutes |-> d.total_minutes,
                    parsed_from_message |-> d.parsed_from_message,
                    task_id |-> d.task_id,
                    clickup_task |-> resolved,
                    is_synced_with_clickup |-> FALSE])
        Resolved(byToken) == IF byToken # NoTask THEN byToken ELSE branchTask
        Of(d) ==
            IF ~d.found
            THEN IF hasLog
                 THEN [logs |-> {l \in logs : ~IsLog(l)}, op |-> "delete"]
                 ELSE [logs |-> logs, op |-> "none"]
            ELSE Write(d, Resolved(IF d.task_id # NoText
                                   THEN ResolveTask(tks, d.task_id) ELSE NoTask))
    IN  Of(DraftOf(message))

Raised(op) == op \in {"IntegrityError", "DatabaseError"}

(***************************************************************************)
(* The code host, as GitHubClient sees it.                                 *)
(***************************************************************************)
\* per_page and max_pages of list_branches and list_commits
PerPage == 100
MaxPages == 50

NoSha == ""

RemoteCommits(rp, name) == ghCommits[<<rp, name>>]

\* the head commit of a remote branch: its newest commit
HeadSha(rp, name) ==
    LET present == {c.sha : c \in RemoteCommits(rp, name)}
        newest  == {x \in present : \A y \in present : ShaDate(y) <= ShaDate(x)}
    IN  IF present = {} THEN NoSha ELSE CHOOSE x \in newest : TRUE

\* GET /repos/{owner}/{repo}/branches, every page
RemoteBranchList(rp) ==
    LET Entry(k) == [name |-> BranchOrder[k], sha |-> HeadSha(rp, BranchOrder[k]),
                     protected |-> BranchOrder[k] = Name_main]
        RECURSIVE From(_)
        From(k) == IF k > Len(BranchOrder) THEN <<>>
                   ELSE IF BranchOrder[k] \in ghBranches[rp]
                        THEN <<Entry(k)>> \o From(k + 1)
                        ELSE From(k + 1)
    IN  From(1)

\* GET /repos/{owner}/{repo}/commits?sha=name&author=author&since=since, every
\* page; author = "" and since = NoTime stand for a parameter not sent.
RemoteCommitList(rp, name, author, since) ==
    LET Item(sha) == LET c == CHOOSE x \in RemoteCommits(rp, name) : x.sha = sha
                     IN  [sha |-> sha, message |-> c.message, date |-> ShaDate(sha),
                          email |-> ShaAuthor(sha).email, login |-> ShaAuthor(sha).login]
        Listed(sha) == /\ \E x \in RemoteCommits(rp, name) : x.sha = sha
                       /\ author = "" \/ ShaAuthor(sha).login = author
                       /\ since = NoTime \/ ShaDate(sha) >= since
        RECURSIVE From(_)
        From(k) == IF k > Len(ShaOrder) THEN <<>>
                   ELSE IF Listed(ShaOrder[k])
                        THEN <<Item(ShaOrder[k])>> \o From(k + 1)
                        ELSE From(k + 1)
    IN  From(1)

Min2(a, b) == IF a <= b THEN a ELSE b

\* The requests the paging loop of list_branches / list_commits makes for a
\* listing of n items: one per non-empty page, and one more that comes back
\* empty unless max_pages stops the loop first.
NumRequests(n, perPage, maxPages) ==
    LET full == (n + perPage - 1) \div perPage
    IN  IF full < maxPages THEN full + 1 ELSE maxPages

\* What such a generator yields before its request number failReq raises
\* (failReq = 0: no request raises).
Yielded(items, perPage, maxPages, failReq) ==
    IF failReq = 0
    THEN SubSeq(items, 1, Min2(Len(items), perPage * maxPages))
    ELSE SubSeq(items, 1, Min2(Len(items), (failReq - 1) * perPage))

PageLimitOneMore(page, max_pages) == page <= max_pages + 1

\* "while page <= max_pages"
PageLimit(page, max_pages) == page <= max_pages

\* The paging loop of list_branches / list_commits from page on, against a
\* code host that answers the request for page p with remote[p], whatever
\* that is: "items = self._request(...); if not items: break; for x in items:
\* yield x; page += 1".  acc: the items yielded and the requests made.
RECURSIVE Paginate(_, _, _, _)
Paginate(remote, page, max_pages, acc) ==
    IF ~PageLimit(page, max_pages) THEN acc
    ELSE IF remote[page] = <<>> THEN [acc EXCEPT !.requests = @ + 1]
    ELSE Paginate(remote, page + 1, max_pages,
                  [items |-> acc.items \o remote[page], requests |-> acc.requests + 1])

\* branch_has_author_commit: "for _ in self.list_commits(..., per_page=1,
\* max_pages=1): return True; return False".  The generator is left at its
\* first item, so it has made the first request only.
HasAuthorCommitRun(remote) ==
    IF ~PageLimit(1, 1) THEN [found |-> FALSE, requests |-> 0]
    ELSE IF remote[1] = <<>> THEN [found |-> FALSE, requests |-> 1]
    ELSE [found |-> TRUE, requests |-> 1]

branch_has_commit(rp, name, author) ==
    Len(Yielded(RemoteCommitList(rp, name, "", NoTime), 1, 1, 0)) > 0

\* branch_has_author_commit: one request for one commit of the branch by author
branch_has_author_commit(rp, name, author) ==
    Len(Yielded(RemoteCommitList(rp, name, author, NoTime), 1, 1, 0)) > 0

(***************************************************************************)
(* tasks.py                                                                *)
(***************************************************************************)
BranchKey(b) == <<b.repo, b.name>>

BranchRows(brs, key) == {b \in brs : BranchKey(b) = key}

ConfigMissingNoRowOnly == ~cfg.exists

\* "if not cfg or not cfg.personal_access_token: raise ValueError(...)"
ConfigMissing == ~cfg.exists \/ ~cfg.personal_access_token

\* re.findall(r"[A-Za-z0-9._-]+", name)
Tokens(name) ==
    {SubSeq(name, x[1], x[2]) :
       x \in {y \in (1 .. Len(name)) \X (1 .. Len(name)) :
                /\ y[1] <= y[2]
                /\ \A k \in y[1] .. y[2] : name[k] \in TaskIdChars
                /\ y[1] = 1 \/ name[y[1] - 1] \notin TaskIdChars
                /\ y[2] = Len(name) \/ name[y[2] + 1] \notin TaskIdChars}}

\* the link of a branch without a matching task is set to None
map_branch_clearing_unmatched(brs, key) ==
    LET Link(b, task) ==
            IF b.clickup_task = task
            THEN [branches |-> brs, writes |-> 0, ret |-> task]
            ELSE [branches |-> (brs \ {b}) \cup {[b EXCEPT !.clickup_task = task]},
                  writes |-> 1, ret |-> task]
        First(hits) == IF hits = {} THEN NoTask ELSE SetMin({t.id : t \in hits})
        OfRow(b) == Link(b, First({t \in tasks : \/ t.user_friendly_id \in Tokens(b.name)
                                                 \/ t.clickup_id \in Tokens(b.name)}))
    IN  OfRow(CHOOSE x \in BranchRows(brs, key) : TRUE)

\* map_branch_clickup_task_by_name_tokens: the branch rows afterwards, the
\* number of rows saved, and the task id returned (NoTask: None)
map_branch_clickup_task_by_name_tokens(brs, key) ==
    LET Link(b, task) ==
            IF task = NoTask \/ b.clickup_task = task
            THEN [branches |-> brs, writes |-> 0, ret |-> task]
            ELSE [branches |-> (brs \ {b}) \cup {[b EXCEPT !.clickup_task = task]},
                  writes |-> 1, ret |-> task]
        First(hits) == IF hits = {} THEN NoTask ELSE SetMin({t.id : t \in hits})
        Of(b, tokens) ==
            IF tokens = {} THEN [branches |-> brs, writes |-> 0, ret |-> NoTask]
            ELSE Link(b, First({t \in tasks : \/ t.user_friendly_id \in tokens
                                              \/ t.clickup_id \in tokens}))
        OfRow(b) == Of(b, Tokens(b.name))
    IN  OfRow(CHOOSE x \in BranchRows(brs, key) : TRUE)

FilterSkipsUnlessError(rp, name, only_user_branches, filterErr) ==
    /\ only_user_branches /\ cfg.exists /\ cfg.username # ""
    /\ name \notin filterErr
    /\ ~branch_has_author_commit(rp, name, cfg.username)

\* "if only_user_branches and cfg and cfg.username: try: if not
\* gh.branch_has_author_commit(...): continue; except Exception: continue":
\* whether the loop of fetch_branches passes over the listed branch name
FilterSkips(rp, name, only_user_branches, filterErr) ==
    /\ only_user_branches /\ cfg.exists /\ cfg.username # ""
    /\ \/ name \in filterErr
       \/ ~branch_has_author_commit(rp, name, cfg.username)

\* The loop of fetch_branches over the entries the listing yields, from entry
\* k on.  acc: the branch rows, the names seen, the counters, the exception
\* that left the loop.  filterErr: the names for which the request of
\* branch_has_author_commit raises.  linkErr: the names for which a query of
\* map_branch_clickup_task_by_name_tokens raises a database error; the call
\* stands outside any try, so the error leaves the loop after the upsert.
RECURSIVE FetchLoop(_, _, _, _, _, _, _)
FetchLoop(rp, entries, k, only_user_branches, filterErr, linkErr, acc) ==
    IF k > Len(entries) \/ acc.raised # "" THEN acc
    ELSE LET b    == entries[k]
             key  == <<rp, b.name>>
             skip == FilterSkips(rp, b.name, only_user_branches, filterErr)
             \* GithubBranch.objects.update_or_create(repo, name, defaults)
             Upserted(rows) ==
                 IF rows = {}
                 THEN acc.branches \cup
                        {[repo |-> rp, name |-> b.name, is_active |-> TRUE,
                          head_sha |-> b.sha, protected |-> b.protected,
                          clickup_task |-> NoTask, last_commits_synced_at |-> NoTime]}
                 ELSE {IF x \in rows
                       THEN [x EXCEPT !.is_active = TRUE, !.head_sha = b.sha,
                                      !.protected = b.protected]
                       ELSE x : x \in acc.branches}
             Step(rows, mapped) ==
                 [branches |-> mapped.branches,
                  seen     |-> acc.seen \cup {b.name},
                  created  |-> acc.created + (IF rows = {} THEN 1 ELSE 0),
                  updated  |-> acc.updated + (IF rows = {} THEN 0 ELSE 1),
                  writes   |-> acc.writes + 1 + mapped.writes,
                  raised   |-> IF b.name \in linkErr THEN "DatabaseError" ELSE ""]
             Of(rows) ==
                 Step(rows,
                      IF b.name \in linkErr
                      THEN [branches |-> Upserted(rows), writes |-> 0, ret |-> NoTask]
                      ELSE map_branch_clickup_task_by_name_tokens(Upserted(rows), key))
         IN  FetchLoop(rp, entries, k + 1, only_user_branches, filterErr, linkErr,
                       IF skip THEN acc ELSE Of(BranchRows(acc.branches, key)))

\* "if name not in seen and branch.is_active": the rows of existing that the
\* sweep after the loop sets inactive
GoneBranchesAny(rp, seen) ==
    {b \in branches : b.repo = rp /\ b.name \notin seen}

GoneBranchesAllActive(rp, seen) ==
    {b \in branches : b.repo = rp /\ b.is_active}

GoneBranchesAnyRepo(rp, seen) ==
    {b \in branches : b.name \notin seen /\ b.is_active}

GoneBranches(rp, seen) ==
    {b \in branches : b.repo = rp /\ b.name \notin seen /\ b.is_active}

\* "branch.is_active = False; branch.save(...)" for every row of gone
SweepRowsHardDelete(rows, gone) == rows \ gone

SweepRows(rows, gone) ==
    {IF b \in gone THEN [b EXCEPT !.is_active = FALSE] ELSE b : b \in rows}

\* fetch_branches(repo, only_user_branches) when the configuration is there:
\* the rows afterwards, the summary returned, and whether it raised.
FetchBranches(rp, only_user_branches, filterErr, linkErr, failReq) ==
    LET \* Soft inactivate not-seen branches
        Swept(loop, gone) ==
            [branches |-> SweepRows(loop.branches, gone),
             repos    |-> [repos EXCEPT ![rp].last_branches_synced_at = now],
             raised   |-> "",
             writes   |-> loop.writes + Cardinality(gone) + 1,
             ret      |-> [repo_id |-> rp, created |-> loop.created,
                           updated |-> loop.updated,
                           inactivated |-> Cardinality(gone),
                           active_count |->
                             Cardinality({b \in loop.branches \ gone :
                                            b.repo = rp /\ b.is_active})]]
        Of(loop) ==
            IF loop.raised # ""
            THEN [branches |-> loop.branches, repos |-> repos, raised |-> loop.raised,
                  writes |-> loop.writes, ret |-> [created |-> loop.created]]
            ELSE IF failReq # 0
            THEN [branches |-> loop.branches, repos |-> repos, raised |-> "GitHubError",
                  writes |-> loop.writes, ret |-> [created |-> loop.created]]
            ELSE Swept(loop, GoneBranches(rp, loop.seen))
    IN  Of(FetchLoop(rp, Yielded(RemoteBranchList(rp), PerPage, MaxPages, failReq), 1,
                     only_user_branches, filterErr, linkErr,
                     [branches |-> branches, seen |-> {}, created |-> 0,
                      updated |-> 0, writes |-> 0, raised |-> ""]))

\* GithubCommit.update_message_if_changed(new_message) on the row obj, within
\* the loop of sync_branch_commits (acc: the rows and counters so far)
update_message_only(acc, obj, branchTask, new_message) ==
    IF new_message # obj.message
    THEN [acc EXCEPT !.commits = (acc.commits \ {obj}) \cup
                                   {[obj EXCEPT !.message = new_message]}]
    ELSE acc

\* the time log refreshed before the new message is on the row
update_message_refresh_first(acc, obj, branchTask, new_message) ==
    LET Saved(redo) ==
            [acc EXCEPT !.commits = (acc.commits \ {obj}) \cup
                                      {[obj EXCEPT !.message = new_message]},
                        !.logs = redo.logs,
                        !.raised = IF Raised(redo.op) THEN redo.op ELSE ""]
    IN  IF new_message # obj.message
        THEN Saved(refresh_time_log_from_message(acc.logs, tasks, branchTask,
                      CommitKey(obj), obj.message, LogsOf(acc.logs, CommitKey(obj))))
        ELSE acc

\* the time log refreshed whether or not the message changed
update_message_always(acc, obj, branchTask, new_message) ==
    LET Saved(redo) ==
            [acc EXCEPT !.commits = (acc.commits \ {obj}) \cup
                                      {[obj EXCEPT !.message = new_message]},
                        !.logs = redo.logs,
                        !.raised = IF Raised(redo.op) THEN redo.op ELSE ""]
    IN  Saved(refresh_time_log_from_message(acc.logs, tasks, branchTask,
                 CommitKey(obj), new_message, LogsOf(acc.logs, CommitKey(obj))))

update_message_if_changed(acc, obj, branchTask, new_message) ==
    LET Saved(redo) ==
            [acc EXCEPT !.commits = (acc.commits \ {obj}) \cup
                                      {[obj EXCEPT !.message = new_message]},
                        !.logs = redo.logs,
                        !.raised = IF Raised(redo.op) THEN redo.op ELSE ""]
    IN  IF new_message # obj.message
        THEN Saved(refresh_time_log_from_message(acc.logs, tasks, branchTask,
                      CommitKey(obj), new_message, LogsOf(acc.logs, CommitKey(obj))))
        ELSE acc

\* The loop body of sync_branch_commits from get_or_create on, for one listed
\* item.
ReconcileItem(acc, bkey, branchTask, item) ==
    LET rows == {c \in acc.commits : c.branch = bkey /\ c.sha = item.sha}
        new  == [branch |-> bkey, sha |-> item.sha, copy |-> 1,
                 message |-> item.message, date |-> item.date]
        Created(made) ==
            [acc EXCEPT !.commits = acc.commits \cup {new},
                        !.logs = made.logs,
                        !.created = acc.created + 1,
                        !.processed = IF Raised(made.op) THEN @ ELSE @ + 1,
                        !.raised = IF Raised(made.op) THEN made.op ELSE ""]
        Updated(upd) ==
            IF upd.raised # "" THEN upd ELSE [upd EXCEPT !.processed = @ + 1]
    IN  IF rows = {}
        THEN Created(refresh_time_log_from_message(acc.logs, tasks, branchTask,
                        CommitKey(new), item.message, LogsOf(acc.logs, CommitKey(new))))
        ELSE IF Cardinality(rows) > 1
        THEN [acc EXCEPT !.raised = "MultipleObjectsReturned"]
        ELSE Updated(update_message_if_changed(acc, CHOOSE c \in rows : TRUE,
                                               branchTask, item.message))

\* The loop of sync_branch_commits over the items the listing yields.
RECURSIVE SyncLoop(_, _, _, _, _)
SyncLoop(items, k, bkey, branchTask, acc) ==
    IF k > Len(items) \/ acc.raised # "" THEN acc
    ELSE LET item == items[k]
             \* Optional additional filtering by email if provided
             skip == /\ cfg.preferred_author_emails # {}
                     /\ item.email # ""
                     /\ item.email \notin cfg.preferred_author_emails
                     /\ item.login # cfg.username
         IN  SyncLoop(items, k + 1, bkey, branchTask,
                      IF skip THEN acc ELSE ReconcileItem(acc, bkey, branchTask, item))

\* the since parameter sync_branch_commits sends for the branch row b
SinceAfterCursor(b, since_last) ==
    IF since_last /\ b.last_commits_synced_at # NoTime
    THEN b.last_commits_synced_at + 1 ELSE NoTime

SinceOf(b, since_last) ==
    IF since_last /\ b.last_commits_synced_at # NoTime
    THEN b.last_commits_synced_at ELSE NoTime

\* branch.last_commits_synced_at = timezone.now(), after the loop
CursorAtNewestCommit(b) ==
    [b EXCEPT !.last_commits_synced_at =
        IF RemoteCommits(b.repo, b.name) = {} THEN @
        ELSE SetMax({ShaDate(c.sha) : c \in RemoteCommits(b.repo, b.name)})]

CursorAdvanced(b) == [b EXCEPT !.last_commits_synced_at = now]

\* sync_branch_commits(branch, since_last) when the configuration is there,
\* with list_commits paging by per_page and max_pages.  branch: the row of
\* the branch afterwards.
SyncBranchCommitsPaged(b, since_last, failReq, per_page, max_pages) ==
    LET Result(loop, raised) ==
            [commits  |-> loop.commits,
             logs     |-> loop.logs,
             branches |-> IF raised # "" THEN branches
                          ELSE (branches \ {b}) \cup {CursorAdvanced(b)},
             branch   |-> IF raised # "" THEN b ELSE CursorAdvanced(b),
             raised   |-> raised,
             ret      |-> [branch_id |-> BranchKey(b), created |-> loop.created,
                           updated |-> loop.updated, processed |-> loop.processed]]
        Of(loop) ==
            Result(loop, IF loop.raised # "" THEN loop.raised
                         ELSE IF failReq # 0 THEN "GitHubError" ELSE "")
    IN  Of(SyncLoop(Yielded(RemoteCommitList(b.repo, b.name, cfg.username,
                                             SinceOf(b, since_last)),
                            per_page, max_pages, failReq),
                    1, BranchKey(b), b.clickup_task,
                    [commits |-> commits, logs |-> timeLogs, created |-> 0,
                     updated |-> 0, processed |-> 0, raised |-> ""]))

\* gh.list_commits(owner, repo_name, sha=..., author=..., since=...): per_page
\* and max_pages are the defaults of list_commits
SyncBranchCommits(b, since_last, failReq) ==
    SyncBranchCommitsPaged(b, since_last, failReq, PerPage, MaxPages)

\* Which remote listing of a run of sync_repo raises: none, the listing of the
\* branches, or the listing of the commits of the branch name.
NoFail == [at |-> "none", name |-> NoText]
FailBranches == [at |-> "branches", name |-> NoText]
FailCommits(name) == [at |-> "commits", name |-> name]

\* The loop of sync_repo over rows, the active branches of the repository
\* after fetch_branches, in the order the database gives them.  acc: all the
\* rows, the sums, and done, the branches whose sync returned.
RECURSIVE SyncRepoLoop(_, _, _, _, _)
SyncRepoLoop(rows, order, k, fail, acc) ==
    IF k > Len(order) \/ acc.raised # "" THEN acc
    ELSE LET hit == {b \in rows : b.name = order[k]}
             Of(b, s) ==
                 [branches  |-> (acc.branches \ {b}) \cup {s.branch},
                  commits   |-> {c \in acc.commits : c.branch # BranchKey(b)} \cup
                                {c \in s.commits : c.branch = BranchKey(b)},
                  logs      |-> {l \in acc.logs : l.commit[1] # BranchKey(b)} \cup
                                {l \in s.logs : l.commit[1] = BranchKey(b)},
                  created   |-> acc.created + s.ret.created,
                  updated   |-> acc.updated + s.ret.updated,
                  processed |-> acc.processed + s.ret.processed,
                  raised    |-> s.raised,
                  done      |-> IF s.raised = "" THEN acc.done \cup {b.name}
                                ELSE acc.done]
             OfRow(b) == Of(b, SyncBranchCommits(b, TRUE,
                                  IF fail = FailCommits(b.name) THEN 1 ELSE 0))
         IN  SyncRepoLoop(rows, order, k + 1, fail,
                          IF hit = {} THEN acc ELSE OfRow(CHOOSE b \in hit : TRUE))

AllBranchesOf(rows, rp) == {b \in rows : b.repo = rp}

\* repo.branches.filter(is_active=True).all()
ActiveBranches(rows, rp) == {b \in rows : b.repo = rp /\ b.is_active}

\* sync_repo(repo, only_user_branches) when the configuration is there: the
\* rows afterwards, whether it raised, and the summary returned.
SyncRepo(rp, only_user_branches, order, fail) ==
    LET Looped(f, loop) ==
            [branches |-> loop.branches, repos |-> f.repos,
             commits  |-> loop.commits, logs |-> loop.logs,
             raised   |-> loop.raised, done |-> loop.done,
             ret      |-> [repo_id |-> rp, branches |-> f.ret,
                           commits_created   |-> loop.created,
                           commits_updated   |-> loop.updated,
                           commits_processed |-> loop.processed]]
        Of(f) ==
            IF f.raised # ""
            THEN [branches |-> f.branches, repos |-> f.repos, commits |-> commits,
                  logs |-> timeLogs, raised |-> f.raised, done |-> {},
                  ret |-> [repo_id |-> rp]]
            ELSE Looped(f, SyncRepoLoop(ActiveBranches(f.branches, rp),
                                        order, 1, fail,
                                        [branches |-> f.branches, commits |-> commits,
                                         logs |-> timeLogs, created |-> 0, updated |-> 0,
                                         processed |-> 0, raised |-> "", done |-> {}]))
    IN  Of(FetchBranches(rp, only_user_branches, {}, {},
                         IF fail = FailBranches THEN 1 ELSE 0))

\* The loop of sync_all_repos over the active repositories, in the order the
\* database gives them; failRepo is the repository whose sync meets fail.
\* acc: the rows, the results appended, the repositories sync_repo was
\* called for.
RECURSIVE SyncAllLoop(_, _, _, _, _, _, _)
SyncAllLoop(repoOrder, k, only_user_branches, order, failRepo, fail, acc) ==
    IF k > Len(repoOrder) \/ acc.raised # "" THEN acc
    ELSE LET rp == repoOrder[k]
             Of(r) ==
                 [branches  |-> {b \in acc.branches : b.repo # rp} \cup
                                {b \in r.branches : b.repo = rp},
                  repos     |-> [acc.repos EXCEPT ![rp] = r.repos[rp]],
                  commits   |-> {c \in acc.commits : c.branch[1] # rp} \cup
                                {c \in r.commits : c.branch[1] = rp},
                  logs      |-> {l \in acc.logs : l.commit[1][1] # rp} \cup
                                {l \in r.logs : l.commit[1][1] = rp},
                  raised    |-> r.raised,
                  results   |-> IF r.raised = "" THEN Append(acc.results, r.ret)
                                ELSE acc.results,
                  attempted |-> acc.attempted \cup {rp}]
         IN  SyncAllLoop(repoOrder, k + 1, only_user_branches, order, failRepo, fail,
                         IF ~repos[rp].is_active THEN acc
                         ELSE Of(SyncRepo(rp, only_user_branches, order,
                                          IF rp = failRepo THEN fail ELSE NoFail)))

\* sync_all_repos(only_user_branches) when the configuration is there
SyncAllRepos(repoOrder, only_user_branches, order, failRepo, fail) ==
    SyncAllLoop(repoOrder, 1, only_user_branches, order, failRepo, fail,
                [branches |-> branches, repos |-> repos, commits |-> commits,
                 logs |-> timeLogs, raised |-> "", results |-> <<>>,
                 attempted |-> {}])

(***************************************************************************)
(* management/commands/refresh_time_logs.py                                *)
(***************************************************************************)
\* The counter Command.handle adds one to for a commit: prev are the rows
\* commit.time_log gave before the refresh, op what the refresh did, minutes
\* the total_minutes of the log object afterwards.  commit.time_log is cached
\* on the commit object, so after log.delete() it still gives the object that
\* was deleted, with the minutes it had.
ClassifyByOp(prev, op, prevMinutes, newMinutes) ==
    IF op = "create" THEN "created"
    ELSE IF op = "delete" THEN "deleted"
    ELSE IF op = "update" THEN "updated"
    ELSE "unchanged"

Classify(prev, op, prevMinutes, newMinutes) ==
    LET prev_log == prev # {}
        new_log  == prev # {} \/ op = "create"
    IN  IF ~prev_log /\ new_log THEN "created"
        ELSE IF prev_log /\ ~new_log THEN "deleted"
        ELSE IF prev_log /\ new_log
             THEN IF newMinutes # prevMinutes THEN "updated" ELSE "unchanged"
        ELSE "uncounted"

BranchOfCommit(c) == CHOOSE b \in branches : BranchKey(b) = c.branch

CommitAt(ck) == CHOOSE c \in commits : CommitKey(c) = ck

\* the queryset of Command.handle: --repo, --branch ("" when not given) and
\* --only-missing
HandleQuerySet(repo, branch, only_missing) ==
    {c \in commits :
       /\ repo = "" \/ c.branch[1] = repo
       /\ branch = NoText \/ c.branch[2] = branch
       /\ ~only_missing \/ LogsOf(timeLogs, CommitKey(c)) = {}}

\* One turn of the loop of Command.handle: prev are the rows commit.time_log
\* gave, run what refresh_time_log_from_message did.
HandleOne(c, prev, run) ==
    LET after == LogsOf(run.logs, CommitKey(c))
        Minutes(rows) == IF rows = {} THEN NoNumber
                         ELSE (CHOOSE l \in rows : TRUE).total_minutes
    IN  [commit  |-> CommitKey(c),
         op      |-> run.op,
         outcome |-> Classify(prev, run.op, Minutes(prev),
                              IF run.op = "delete" THEN Minutes(prev) ELSE Minutes(after)),
         before  |-> prev,
         after   |-> after,
         raised  |-> Cardinality(prev) > 1 \/ Raised(run.op)]

\* Command.handle on the queryset qs: per commit, what the refresh did and the
\* counter it went to; and the time-log rows afterwards.  The loop runs in one
\* transaction: if a turn raises, no row is changed.
Handle(qs) ==
    LET Count(results, o) == Cardinality({r \in results : r.outcome = o})
        Result(results, raised) ==
            [logs    |-> IF raised THEN timeLogs
                         ELSE {l \in timeLogs : \A c \in qs : l.commit # CommitKey(c)}
                              \cup UNION {r.after : r \in results},
             raised  |-> IF raised THEN "Error" ELSE "",
             results |-> results,
             ret     |-> [created   |-> Count(results, "created"),
                          updated   |-> Count(results, "updated"),
                          deleted   |-> Count(results, "deleted"),
                          unchanged |-> Count(results, "unchanged")]]
        Of(results) == Result(results, \E r \in results : r.raised)
    IN  Of({HandleOne(c, LogsOf(timeLogs, CommitKey(c)),
                      refresh_time_log_from_message(timeLogs, tasks,
                         BranchOfCommit(c).clickup_task, CommitKey(c), c.message,
                         LogsOf(timeLogs, CommitKey(c)))) : c \in qs})

(***************************************************************************)
(* The operations as actions.  last records the operation that ran last:   *)
(* its arguments, the rows before it, what it returned or raised.          *)
(***************************************************************************)
NoOp == [op |-> "none"]

fetch_branches(rp, only_user_branches, filterErr, linkErr, failReq) ==
    /\ rp \in DOMAIN repos
    /\ IF ConfigMissing
       THEN /\ last' = [op |-> "fetch_branches", repo |-> rp, raised |-> "ValueError"]
            /\ UNCHANGED <<branches, repos>>
       ELSE LET Done(listing, r) ==
                  /\ failReq \in 0 .. NumRequests(Len(listing), PerPage, MaxPages)
                  /\ filterErr \subseteq {listing[k].name : k \in 1 .. Len(listing)}
                  /\ filterErr # {} =>
                        only_user_branches /\ cfg.exists /\ cfg.username # ""
                  /\ linkErr # {} => r.raised = "DatabaseError"
                  /\ branches' = r.branches
                  /\ repos' = r.repos
                  /\ last' = [op |-> "fetch_branches", repo |-> rp, raised |-> r.raised,
                              ret |-> r.ret, writes |-> r.writes,
                              same_rows |-> r.branches = branches,
                              only_user_branches |-> only_user_branches,
                              listing |-> listing, filterErr |-> filterErr,
                              failReq |-> failReq, linkErr |-> linkErr,
                              reactivated |->
                                {b.name : b \in {x \in branches :
                                    /\ x.repo = rp /\ ~x.is_active
                                    /\ [x EXCEPT !.is_active = TRUE] \in
                                         {[y EXCEPT !.head_sha = x.head_sha,
                                                    !.protected = x.protected,
                                                    !.clickup_task = x.clickup_task] :
                                            y \in r.branches}}},
                              tasks |-> tasks,
                              again |-> /\ last.op = "fetch_branches"
                                        /\ last.raised = "" /\ r.raised = ""
                                        /\ last.repo = rp
                                        /\ last.only_user_branches = only_user_branches
                                        /\ last.listing = listing
                                        /\ last.filterErr = filterErr
                                        /\ last.tasks = tasks]
            IN  Done(RemoteBranchList(rp),
                     FetchBranches(rp, only_user_branches, filterErr, linkErr, failReq))
    /\ UNCHANGED <<cfg, tasks, commits, timeLogs, ghVars, now, ptl, workers, parserVars>>

\* sync_branch_commits(branch, since_last), list_commits paging by per_page
\* and max_pages; left: the commits of the listing beyond the last page
sync_branch_commits_paged(b, since_last, failReq, per_page, max_pages) ==
    /\ b \in branches
    /\ IF ConfigMissing
       THEN /\ last' = [op |-> "sync_branch_commits", branch |-> BranchKey(b),
                        raised |-> "ValueError"]
            /\ UNCHANGED <<branches, commits, timeLogs>>
       ELSE LET Done(listing, r) ==
                  /\ failReq \in 0 .. NumRequests(Len(listing), per_page, max_pages)
                  /\ branches' = r.branches
                  /\ commits' = r.commits
                  /\ timeLogs' = r.logs
                  /\ last' = [op |-> "sync_branch_commits", branch |-> BranchKey(b),
                              raised |-> r.raised, ret |-> r.ret,
                              left |-> {listing[k].sha :
                                          k \in per_page * max_pages + 1 .. Len(listing)},
                              since |-> SinceOf(b, since_last),
                              since_last |-> since_last,
                              cursor |-> b.last_commits_synced_at,
                              retry |-> /\ last.op = "sync_branch_commits"
                                        /\ last.raised = "GitHubError"
                                        /\ last.branch = BranchKey(b),
                              reworded |-> {CommitKey(c) : c \in commits \ r.commits},
                              removed |-> {l.commit : l \in timeLogs} \
                                            {l.commit : l \in r.logs}]
            IN  Done(RemoteCommitList(b.repo, b.name, cfg.username,
                                      SinceOf(b, since_last)),
                     SyncBranchCommitsPaged(b, since_last, failReq, per_page, max_pages))
    /\ UNCHANGED <<cfg, tasks, repos, ghVars, now, ptl, workers, parserVars>>

sync_branch_commits(b, since_last, failReq) ==
    sync_branch_commits_paged(b, since_last, failReq, PerPage, MaxPages)

\* sync_repo(repo, only_user_branches); order: the order in which the
\* database gives the branches
sync_repo(rp, only_user_branches, order, fail) ==
    /\ rp \in DOMAIN repos
    /\ IF ConfigMissing
       THEN /\ last' = [op |-> "sync_repo", repo |-> rp, raised |-> "ValueError"]
            /\ UNCHANGED <<branches, repos, commits, timeLogs>>
       ELSE LET Done(r) ==
                  /\ (fail # NoFail) => r.raised # ""
                  /\ branches' = r.branches
                  /\ repos' = r.repos
                  /\ commits' = r.commits
                  /\ timeLogs' = r.logs
                  /\ last' = [op |-> "sync_repo", repo |-> rp, raised |-> r.raised,
                              ret |-> r.ret, done |-> r.done]
            IN  Done(SyncRepo(rp, only_user_branches, order, fail))
    /\ UNCHANGED <<cfg, tasks, ghVars, now, ptl, workers, parserVars>>

\* sync_all_repos(only_user_branches); repoOrder and order: the orders in
\* which the database gives the repositories and the branches
sync_all_repos(repoOrder, only_user_branches, order, failRepo, fail) ==
    /\ IF ConfigMissing /\ \E rp \in DOMAIN repos : repos[rp].is_active
       THEN /\ last' = [op |-> "sync_all_repos", raised |-> "ValueError",
                        attempted |-> {},
                        active |-> {rp \in DOMAIN repos : repos[rp].is_active}]
            /\ UNCHANGED <<branches, repos, commits, timeLogs>>
       ELSE LET Done(r) ==
                  /\ (fail # NoFail) => r.raised # ""
                  /\ branches' = r.branches
                  /\ repos' = r.repos
                  /\ commits' = r.commits
                  /\ timeLogs' = r.logs
                  /\ last' = [op |-> "sync_all_repos", raised |-> r.raised,
                              ret |-> [repos |-> r.results],
                              attempted |-> r.attempted,
                              active |-> {rp \in DOMAIN repos : repos[rp].is_active}]
            IN  Done(SyncAllRepos(repoOrder, only_user_branches, order, failRepo, fail))
    /\ UNCHANGED <<cfg, tasks, ghVars, now, ptl, workers, parserVars>>

\* python manage.py refresh_time_logs [--repo R] [--branch B] [--only-missing]
refresh_time_logs(repo, branch, only_missing) ==
    LET Done(r) ==
          /\ timeLogs' = r.logs
          /\ last' = [op |-> "refresh_time_logs", raised |-> r.raised,
                      ret |-> r.ret, results |-> r.results,
                      prev |-> IF last.op = "refresh_time_logs" /\ last.raised = ""
                               THEN {[commit |-> x.commit, outcome |-> x.outcome,
                                       had_log |-> x.before # {}] :
                                       x \in last.results}
                               ELSE {}]
        Of(qs) == qs # {} /\ Done(Handle(qs))
    IN  /\ Of(HandleQuerySet(repo, branch, only_missing))
        /\ UNCHANGED <<cfg, tasks, repos, branches, commits, ghVars, now, ptl,
                       workers, parserVars>>

(***************************************************************************)
(* What happens around the reconcilers.                                    *)
(***************************************************************************)
\* The tracker side records that a time log was pushed to the tracker (the
\* flag is a plain editable field of GithubCommitTimeLogAdmin).
mark_synced(l) ==
    /\ l \in timeLogs
    /\ ~l.is_synced_with_clickup
    /\ timeLogs' = (timeLogs \ {l}) \cup {[l EXCEPT !.is_synced_with_clickup = TRUE]}
    /\ last' = NoOp
    /\ UNCHANGED <<cfg, tasks, repos, branches, commits, ghVars, now, ptl, workers, parserVars>>

\* ClickupTask.upsert_from_payload: a task enters the task index
upsert_task(t) ==
    /\ t \notin tasks
    /\ tasks' = tasks \cup {t}
    /\ last' = NoOp
    /\ UNCHANGED <<cfg, repos, branches, commits, timeLogs, ghVars, now, ptl, workers, parserVars>>

gh_create_branch(rp, name) ==
    /\ name \notin ghBranches[rp]
    /\ ghBranches' = [ghBranches EXCEPT ![rp] = @ \cup {name}]
    /\ last' = NoOp
    /\ UNCHANGED <<dbVars, ghCommits, now, ptl, workers, parserVars>>

gh_delete_branch(rp, name) ==
    /\ name \in ghBranches[rp]
    /\ ghBranches' = [ghBranches EXCEPT ![rp] = @ \ {name}]
    /\ ghCommits' = [ghCommits EXCEPT ![<<rp, name>>] = {}]
    /\ last' = NoOp
    /\ UNCHANGED <<dbVars, now, ptl, workers, parserVars>>

gh_push(rp, name, sha, message) ==
    /\ name \in ghBranches[rp]
    /\ \A c \in RemoteCommits(rp, name) : c.sha # sha
    /\ ShaDate(sha) <= now
    /\ ghCommits' = [ghCommits EXCEPT ![<<rp, name>>] =
                        @ \cup {[sha |-> sha, message |-> message]}]
    /\ last' = NoOp
    /\ UNCHANGED <<dbVars, ghBranches, now, ptl, workers, parserVars>>

\* an upstream rewrite of a commit's message
gh_reword(rp, name, sha, message) ==
    /\ \E c \in RemoteCommits(rp, name) : c.sha = sha /\ c.message # message
    /\ ghCommits' = [ghCommits EXCEPT ![<<rp, name>>] =
                        {IF c.sha = sha THEN [c EXCEPT !.message = message] ELSE c :
                           c \in @}]
    /\ last' = NoOp
    /\ UNCHANGED <<dbVars, ghBranches, now, ptl, workers, parserVars>>

tick ==
    /\ now < MaxTime
    /\ now' = now + 1
    /\ last' = NoOp
    /\ UNCHANGED <<dbVars, ghVars, ptl, workers, parserVars>>

Idle == [phase |-> "idle"]

\* The rows right after the configuration was saved and the repositories
\* were imported: one active repository, nothing reconciled yet.
DbInit ==
    /\ cfg = DevCfg
    /\ tasks = {}
    /\ repos = [rp \in RepoIds |-> [is_active |-> TRUE, last_branches_synced_at |-> NoTime]]
    /\ branches = {}
    /\ commits = {}
    /\ timeLogs = {}
    /\ now = 0
    /\ last = NoOp
    /\ ptl = Idle
    /\ workers = Idle

ParserIdle == pmsg = <<>> /\ pdraft = NoDraft

(***************************************************************************)
(* Spec: one commit of one branch, feat/I-002, and its time log, under     *)
(* pushes, message rewrites, task imports and every reconciler.            *)
(***************************************************************************)
Init ==
    /\ DbInit
    /\ ParserIdle
    /\ ghBranches = [rp \in RepoIds |-> {Name_feat}]
    /\ ghCommits = [key \in RepoIds \X BranchNames |-> {}]

Reconcilers ==
    \/ \E rp \in RepoIds, fr \in 0 .. 1 : fetch_branches(rp, FALSE, {}, {}, fr)
    \/ \E b \in branches, sl \in BOOLEAN, fr \in 0 .. 2 :
          sync_branch_commits(b, sl, fr)
    \/ \E nm \in {Name_feat, NoText}, om \in BOOLEAN :
          refresh_time_logs("", nm, om)

Environment ==
    \/ \E l \in timeLogs : mark_synced(l)
    \/ \E t \in TaskPool : upsert_task(t)
    \/ \E rp \in RepoIds, m \in Messages : gh_push(rp, Name_feat, "s1", m)
    \/ \E rp \in RepoIds, m \in Messages : gh_reword(rp, Name_feat, "s1", m)
    \/ tick

Next == Reconcilers \/ Environment

Spec == Init /\ [][Next]_vars

(***************************************************************************)
(* AsyncSpec: the reconcilers run as tasks (tasks.py: "meant to be run in  *)
(* async workers"), so a process_commit_time_log task runs beside them.    *)
(* It reads the commit row, then its time log, and writes later, with     *)
(* what it read.                                                           *)
(***************************************************************************)
\* process_commit_time_log: GithubCommit.objects.get(pk=commit_or_id), the
\* commit object with the message it has now
ptl_get(c) ==
    /\ ptl = Idle
    /\ workers = Idle
    /\ c \in commits
    /\ ptl' = [phase |-> "got", commit |-> CommitKey(c), message |-> c.message,
               seen |-> {}]
    /\ last' = NoOp
    /\ UNCHANGED <<dbVars, ghVars, now, workers, parserVars>>

\* process_commit_time_log: before = bool(getattr(commit, "time_log", None)),
\* which caches the time-log object, or the miss, on the commit object
ptl_read ==
    /\ ptl.phase = "got"
    /\ ptl' = [ptl EXCEPT !.phase = "read", !.seen = LogsOf(timeLogs, ptl.commit)]
    /\ last' = NoOp
    /\ UNCHANGED <<dbVars, ghVars, now, workers, parserVars>>

\* process_commit_time_log, from commit.refresh_time_log_from_message() on
ptl_write ==
    /\ ptl.phase = "read"
    /\ LET Done(r) ==
             /\ timeLogs' = r.logs
             /\ last' = [op |-> "process_commit_time_log", commit |-> ptl.commit,
                         did |-> r.op,
                         raised |-> IF Raised(r.op) THEN r.op ELSE ""]
       IN  Done(refresh_time_log_from_message(timeLogs, tasks,
                   BranchOfCommit(CommitAt(ptl.commit)).clickup_task,
                   ptl.commit, ptl.message, ptl.seen))
    /\ ptl' = Idle
    /\ UNCHANGED <<cfg, tasks, repos, branches, commits, ghVars, now, workers, parserVars>>

AsyncNext ==
    \/ \E rp \in RepoIds : fetch_branches(rp, FALSE, {}, {}, 0)
    \/ \E b \in branches : sync_branch_commits(b, FALSE, 0)
    \/ refresh_time_logs("", NoText, FALSE)
    \/ \E c \in commits : ptl_get(c)
    \/ ptl_read
    \/ ptl_write
    \/ \E rp \in RepoIds, m \in Messages : gh_push(rp, Name_feat, "s1", m)
    \/ \E rp \in RepoIds, m \in Messages : gh_reword(rp, Name_feat, "s1", m)

AsyncSpec == Init /\ [][AsyncNext]_vars

(***************************************************************************)
(* BranchSpec: the branches of the repository, main and feat/I-002, come   *)
(* and go on the code host and get commits; the task index fills; the      *)
(* branch reconciler runs with and without the author filter, and with     *)
(* requests that fail.                                                     *)
(***************************************************************************)
BranchInit ==
    /\ DbInit
    /\ ParserIdle
    /\ ghBranches = [rp \in RepoIds |-> {}]
    /\ ghCommits = [key \in RepoIds \X BranchNames |-> {}]

BranchNext ==
    \/ \E rp \in RepoIds, oub \in BOOLEAN, fe \in SUBSET BranchNames, fr \in 0 .. 1 :
          fetch_branches(rp, oub, fe, {}, fr)
    \/ \E rp \in RepoIds, nm \in BranchNames : fetch_branches(rp, FALSE, {}, {nm}, 0)
    \/ \E t \in TaskPool : upsert_task(t)
    \/ \E rp \in RepoIds, nm \in BranchNames : gh_create_branch(rp, nm)
    \/ \E rp \in RepoIds, nm \in BranchNames : gh_delete_branch(rp, nm)
    \/ \E rp \in RepoIds, nm \in BranchNames : gh_push(rp, nm, "s1", Msg_wip)
    \/ tick

BranchSpec == BranchInit /\ [][BranchNext]_vars

(***************************************************************************)
(* TaskSpec: the commit of feat/I-002 carries messages whose task token    *)
(* names a task by its short id, by its external id, or names no task,     *)
(* while two tasks enter the task index and the branch gets its link.      *)
(***************************************************************************)
\* a task without a short id: _derive_user_friendly_id gave None
Task_86c2 ==
    [id |-> 2, clickup_id |-> <<"8", "6", "c", "2">>, user_friendly_id |-> NoText]

TaskSpecTasks == {Task_I002, Task_86c2}

Msg_ext == <<"#", "8", "6", "c", "2", " ", "2", "h">>
Msg_T1  == <<"#", "T", "1", " ", "3", "0", "m">>

TaskSpecMessages == {Msg_task, Msg_ext, Msg_T1, Msg_45}

TaskNext ==
    \/ \E rp \in RepoIds : fetch_branches(rp, FALSE, {}, {}, 0)
    \/ \E b \in branches : sync_branch_commits(b, FALSE, 0)
    \/ refresh_time_logs("", NoText, FALSE)
    \/ \E t \in TaskSpecTasks : upsert_task(t)
    \/ \E rp \in RepoIds, m \in TaskSpecMessages : gh_push(rp, Name_feat, "s1", m)
    \/ \E rp \in RepoIds, m \in TaskSpecMessages : gh_reword(rp, Name_feat, "s1", m)

TaskSpec == Init /\ [][TaskNext]_vars

(***************************************************************************)
(* OrchSpec: two repositories, each with a branch that gets a commit,      *)
(* loses it to a rewrite or goes away on the code host; the reconcilers    *)
(* run one by one and through sync_repo and sync_all_repos, with remote    *)
(* listings that fail.                                                     *)
(***************************************************************************)
OrchRepoIds == {"r1", "r2"}

\* the branches of each repository on the code host
OrchBranches(rp) == IF rp = "r1" THEN {Name_feat, Name_main} ELSE {Name_main}

OrchRepoOrders == {<<"r1", "r2">>, <<"r2", "r1">>}

OrchBranchOrders == {<<Name_feat, Name_main>>, <<Name_main, Name_feat>>}

\* the listings of repository rp that can fail
OrchFails(rp) == {FailBranches} \cup {FailCommits(nm) : nm \in OrchBranches(rp)}

OrchInit ==
    /\ cfg = DevCfg
    /\ tasks = {}
    /\ repos = [rp \in OrchRepoIds |->
                  [is_active |-> TRUE, last_branches_synced_at |-> NoTime]]
    /\ branches = {}
    /\ commits = {}
    /\ timeLogs = {}
    /\ now = 0
    /\ last = NoOp
    /\ ptl = Idle
    /\ workers = Idle
    /\ ParserIdle
    /\ ghBranches = [rp \in OrchRepoIds |-> OrchBranches(rp)]
    /\ ghCommits = [key \in OrchRepoIds \X BranchNames |-> {}]

OrchNext ==
    \/ \E rp \in OrchRepoIds : fetch_branches(rp, TRUE, {}, {}, 0)
    \/ \E b \in branches : sync_branch_commits(b, TRUE, 0)
    \/ \E rp \in OrchRepoIds, order \in OrchBranchOrders :
          \E fail \in {NoFail} \cup OrchFails(rp) : sync_repo(rp, TRUE, order, fail)
    \/ \E repoOrder \in OrchRepoOrders :
          \/ sync_all_repos(repoOrder, TRUE, BranchOrder, repoOrder[1], NoFail)
          \/ \E rp \in OrchRepoIds :
                sync_all_repos(repoOrder, TRUE, BranchOrder, rp, FailBranches)
          \/ sync_all_repos(repoOrder, TRUE, BranchOrder, "r1", FailCommits(Name_feat))
    \/ \E rp \in OrchRepoIds : \E nm \in OrchBranches(rp) :
          gh_push(rp, nm, "s1", Msg_45)
    \/ gh_push("r1", Name_main, "s3", Msg_wip)
    \/ gh_delete_branch("r1", Name_feat)

OrchSpec == OrchInit /\ [][OrchNext]_vars

(***************************************************************************)
(* ParSpec: sync_repo of r1 and sync_repo of r2 run as two tasks side by   *)
(* side (tasks.py: "meant to be run in async workers"), each going through *)
(* fetch_branches and then sync_branch_commits for its active branches;    *)
(* the steps of the two interleave in every way.  The code host does not   *)
(* change while they run.                                                  *)
(***************************************************************************)
\* the branch, repository, commit and time-log rows of a result
Rows(r) == <<r.branches, r.repos, r.commits, r.logs>>

\* "for branch in repo.branches.filter(is_active=True).all()": the names of
\* rows in the order the database gives them
OrderedNames(rows, order) ==
    SelectSeq(order, LAMBDA n : \E b \in rows : b.name = n)

PcAfter(todo) == IF todo = <<>> THEN "done" ELSE "sync"

\* both tasks are started; serial: what sync_all_repos would leave from here,
\* in either order of the repositories
par_start ==
    /\ workers = Idle
    /\ ~ConfigMissing
    /\ workers' = [phase  |-> "running",
                   pc     |-> [rp \in OrchRepoIds |-> "fetch"],
                   todo   |-> [rp \in OrchRepoIds |-> <<>>],
                   trace  |-> <<>>,
                   start  |-> <<branches, repos, commits, timeLogs>>,
                   serial |-> {Rows(SyncAllRepos(o, TRUE, BranchOrder, o[1], NoFail)) :
                                 o \in OrchRepoOrders}]
    /\ last' = NoOp
    /\ UNCHANGED <<dbVars, ghVars, now, ptl, parserVars>>

\* sync_repo(rp): b_stats = fetch_branches(repo, only_user_branches)
par_fetch(rp) ==
    /\ workers # Idle
    /\ workers.pc[rp] = "fetch"
    /\ LET Done(r, todo) ==
              /\ branches' = r.branches
              /\ repos' = r.repos
              /\ workers' = [workers EXCEPT !.pc[rp] = PcAfter(todo), !.todo[rp] = todo,
                                            !.trace = Append(@, rp)]
       IN  Done(FetchBranches(rp, TRUE, {}, {}, 0),
                OrderedNames(ActiveBranches(FetchBranches(rp, TRUE, {}, {}, 0).branches, rp),
                             BranchOrder))
    /\ last' = NoOp
    /\ UNCHANGED <<cfg, tasks, commits, timeLogs, ghVars, now, ptl, parserVars>>

\* sync_repo(rp): s = sync_branch_commits(branch), for the next branch
par_sync(rp) ==
    /\ workers # Idle
    /\ workers.pc[rp] = "sync"
    /\ LET Done(r) ==
              /\ branches' = r.branches
              /\ commits' = r.commits
              /\ timeLogs' = r.logs
              /\ workers' = [workers EXCEPT !.pc[rp] = PcAfter(Tail(workers.todo[rp])),
                                            !.todo[rp] = Tail(@),
                                            !.trace = Append(@, rp)]
       IN  Done(SyncBranchCommits(
                  CHOOSE b \in branches : BranchKey(b) = <<rp, Head(workers.todo[rp])>>,
                  TRUE, 0))
    /\ last' = NoOp
    /\ UNCHANGED <<cfg, tasks, repos, ghVars, now, ptl, parserVars>>

\* both tasks have returned
par_join ==
    /\ workers # Idle
    /\ \A rp \in OrchRepoIds : workers.pc[rp] = "done"
    /\ workers' = Idle
    /\ last' = NoOp
    /\ UNCHANGED <<dbVars, ghVars, now, ptl, parserVars>>

ParNext ==
    \/ par_start
    \/ \E rp \in OrchRepoIds : par_fetch(rp)
    \/ \E rp \in OrchRepoIds : par_sync(rp)
    \/ par_join
    \/ /\ workers = Idle
       /\ \/ \E rp \in OrchRepoIds : \E nm \in OrchBranches(rp) :
                gh_push(rp, nm, "s1", Msg_45)
          \/ gh_push("r1", Name_main, "s3", Msg_wip)
          \/ gh_delete_branch("r1", Name_feat)

ParSpec == OrchInit /\ [][ParNext]_vars

(***************************************************************************)
(* LinkSpec: three branch rows, named after a task's short id, after a     *)
(* task's external id, and after no task; tasks enter the task index, the  *)
(* admin sets a branch's task by hand, and the branches are linked.        *)
(***************************************************************************)
Name_ext == <<"f", "i", "x", "/", "8", "6", "c", "2">>

LinkNames == {Name_feat, Name_ext, Name_main}

LinkInit ==
    /\ DbInit
    /\ ParserIdle
    /\ ghBranches = [rp \in RepoIds |-> {}]
    /\ ghCommits = [key \in RepoIds \X BranchNames |-> {}]

\* GithubBranch.objects.update_or_create(repo, name, defaults) on a new name
create_branch(rp, name) ==
    /\ BranchRows(branches, <<rp, name>>) = {}
    /\ branches' = branches \cup
                      {[repo |-> rp, name |-> name, is_active |-> TRUE,
                        head_sha |-> NoSha, protected |-> FALSE,
                        clickup_task |-> NoTask, last_commits_synced_at |-> NoTime]}
    /\ last' = NoOp
    /\ UNCHANGED <<cfg, tasks, repos, commits, timeLogs, ghVars, now, ptl, workers,
                   parserVars>>

\* the admin saves a branch with another task chosen
admin_link(b, t) ==
    /\ b \in branches
    /\ t \in tasks
    /\ b.clickup_task # t.id
    /\ branches' = (branches \ {b}) \cup {[b EXCEPT !.clickup_task = t.id]}
    /\ last' = NoOp
    /\ UNCHANGED <<cfg, tasks, repos, commits, timeLogs, ghVars, now, ptl, workers,
                   parserVars>>

\* map_branch_clickup_task_by_name_tokens(branch)
map_branch(b) ==
    /\ b \in branches
    /\ LET Done(r) ==
              /\ branches' = r.branches
              /\ last' = [op |-> "map_branch", branch |-> BranchKey(b), raised |-> "",
                          ret |-> r.ret, writes |-> r.writes, before |-> branches]
       IN  Done(map_branch_clickup_task_by_name_tokens(branches, BranchKey(b)))
    /\ UNCHANGED <<cfg, tasks, repos, commits, timeLogs, ghVars, now, ptl, workers,
                   parserVars>>

LinkNext ==
    \/ \E rp \in RepoIds, nm \in LinkNames : create_branch(rp, nm)
    \/ \E t \in TaskSpecTasks : upsert_task(t)
    \/ \E b \in branches, t \in tasks : admin_link(b, t)
    \/ \E b \in branches : map_branch(b)

LinkSpec == LinkInit /\ [][LinkNext]_vars

(***************************************************************************)
(* PageSpec: the listings of GitHubClient against a code host that answers *)
(* every page request with any page of at most per_page items, a non-empty *)
(* page for every request included.  A listing keeps nothing from one      *)
(* call to the next, so a behaviour is one call.                           *)
(***************************************************************************)
\* the largest max_pages and per_page tried
MaxPagesTried == 3
PerPageTried == 2

\* the pages a code host can be asked for: one more than any max_pages
PageNumbers == 1 .. MaxPagesTried + 1

\* a page of n items
PageOf(n) == [i \in 1 .. n |-> i]

Remotes(per_page) == [PageNumbers -> {PageOf(n) : n \in 0 .. per_page}]

\* list(gh.list_branches(...)) or list(gh.list_commits(...))
list_pages(op, remote, per_page, max_pages) ==
    /\ last = NoOp
    /\ LET Done(r) ==
              last' = [op |-> op, remote |-> remote, per_page |-> per_page,
                       max_pages |-> max_pages, requests |-> r.requests,
                       items |-> r.items]
       IN  Done(Paginate(remote, 1, max_pages, [items |-> <<>>, requests |-> 0]))
    /\ UNCHANGED <<dbVars, ghVars, now, ptl, workers, parserVars>>

\* gh.branch_has_author_commit(owner, repo, branch, author)
has_author_commit(remote) ==
    /\ last = NoOp
    /\ LET Done(r) ==
              last' = [op |-> "branch_has_author_commit", remote |-> remote,
                       requests |-> r.requests, found |-> r.found]
       IN  Done(HasAuthorCommitRun(remote))
    /\ UNCHANGED <<dbVars, ghVars, now, ptl, workers, parserVars>>

PageNext ==
    \/ \E op \in {"list_branches", "list_commits"}, per_page \in 1 .. PerPageTried,
          max_pages \in 1 .. MaxPagesTried :
          \E remote \in Remotes(per_page) : list_pages(op, remote, per_page, max_pages)
    \/ \E remote \in Remotes(1) : has_author_commit(remote)

PageSpec == LinkInit /\ [][PageNext]_vars

(***************************************************************************)
(* ReviveSpec: the branch feat/I-002 is deleted on the code host and made  *)
(* again, gets commits and is synced, while time passes.                   *)
(***************************************************************************)
ReviveNext ==
    \/ \E rp \in RepoIds, oub \in BOOLEAN : fetch_branches(rp, oub, {}, {}, 0)
    \/ \E b \in branches : sync_branch_commits(b, TRUE, 0)
    \/ \E rp \in RepoIds : gh_delete_branch(rp, Name_feat)
    \/ \E rp \in RepoIds : gh_create_branch(rp, Name_feat)
    \/ \E rp \in RepoIds, sha \in {"s1", "s2"} : gh_push(rp, Name_feat, sha, Msg_45)
    \/ tick

ReviveSpec == Init /\ [][ReviveNext]_vars

(***************************************************************************)
(* CapSpec: the code of sync_branch_commits with list_commits paging by    *)
(* one commit a page and at most one or two pages, in place of 100 a page  *)
(* and 50 pages, so that a branch of three commits has more commits than   *)
(* one listing gives.                                                      *)
(***************************************************************************)
CapPerPage == 1
CapMaxPages == 2

CapNext ==
    \/ \E rp \in RepoIds : fetch_branches(rp, FALSE, {}, {}, 0)
    \/ \E b \in branches, sl \in BOOLEAN, mp \in 1 .. CapMaxPages :
          sync_branch_commits_paged(b, sl, 0, CapPerPage, mp)
    \/ \E rp \in RepoIds, sha \in Shas : gh_push(rp, Name_feat, sha, Msg_45)
    \/ tick

CapSpec == Init /\ [][CapNext]_vars

(***************************************************************************)
(* RaceSpec: two sync_branch_commits tasks of the branch feat/I-002 run    *)
(* side by side, one statement that reads or writes the database at a      *)
(* time, while the branch gets commits and a commit's message is           *)
(* rewritten upstream.  pc: the statement a task is at; items: the listed  *)
(* commits it has not reconciled yet; obj: the commit object it holds;     *)
(* seen: what its lookup of obj.time_log found; lost: the inserts of the   *)
(* task that the database refused.                                         *)
(***************************************************************************)
RaceBranch == <<"r1", Name_feat>>

Racing(run) == [phase |-> "race", run |-> run]

\* the statement after the loop body: the next item, or the cursor
RacerNext(r) ==
    [r EXCEPT !.pc = IF Len(r.items) > 1 THEN "get" ELSE "cursor",
              !.items = Tail(@), !.obj = {}, !.seen = {}]

\* sync_branch_commits up to the first item of gh.list_commits(...)
race_start(i, b, since_last) ==
    /\ RaceRuns[i].pc \in {"idle", "done"}
    /\ b \in branches
    /\ BranchKey(b) = RaceBranch
    /\ LET listing == Yielded(RemoteCommitList(b.repo, b.name, cfg.username,
                                               SinceOf(b, since_last)),
                              PerPage, MaxPages, 0)
           \* Optional additional filtering by email if provided
           Kept(item) == ~(/\ cfg.preferred_author_emails # {}
                           /\ item.email # ""
                           /\ item.email \notin cfg.preferred_author_emails
                           /\ item.login # cfg.username)
           Started(items) ==
               [RacerIdle EXCEPT !.pc = IF items = <<>> THEN "cursor" ELSE "get",
                                 !.items = items]
       IN  workers' = Racing([RaceRuns EXCEPT ![i] =
               IF ConfigMissing
               THEN [RacerIdle EXCEPT !.pc = "done", !.raised = "ValueError"]
               ELSE Started(SelectSeq(listing, Kept))])
    /\ last' = NoOp
    /\ UNCHANGED <<dbVars, ghVars, now, ptl, parserVars>>

\* GithubCommit.objects.get_or_create(branch=branch, sha=sha, ...): the get
race_get(i) ==
    /\ RaceRuns[i].pc = "get"
    /\ LET rows == {c \in commits : /\ c.branch = RaceBranch
                                    /\ c.sha = Head(RaceRuns[i].items).sha}
       IN  workers' = Racing([RaceRuns EXCEPT ![i] =
               IF rows = {} THEN [@ EXCEPT !.pc = "insert"]
               ELSE [@ EXCEPT !.pc = "update", !.obj = rows]])
    /\ last' = NoOp
    /\ UNCHANGED <<dbVars, ghVars, now, ptl, parserVars>>

\* the insert of a commit row: uniq_branch_sha refuses a second row of a
\* (branch, sha) (IntegrityError)
CommitCreateNotUnique(rows, row) ==
    [commits |-> rows \cup
                   {[row EXCEPT !.copy =
                       1 + Cardinality({c \in rows : /\ c.branch = row.branch
                                                     /\ c.sha = row.sha})]},
     op |-> "create"]

CommitCreate(rows, row) ==
    IF \E c \in rows : c.branch = row.branch /\ c.sha = row.sha
    THEN [commits |-> rows, op |-> "IntegrityError"]
    ELSE [commits |-> rows \cup {row}, op |-> "create"]

\* get_or_create: the create, after the get found no row.  A refused insert
\* is caught inside get_or_create, which then gets the row that is there and
\* returns it with created = False.
race_insert(i) ==
    /\ RaceRuns[i].pc = "insert"
    /\ LET item == Head(RaceRuns[i].items)
           new  == [branch |-> RaceBranch, sha |-> item.sha, copy |-> 1,
                    message |-> item.message, date |-> item.date]
           Done(r) ==
               /\ commits' = r.commits
               /\ workers' = Racing([RaceRuns EXCEPT ![i] =
                     IF r.op = "create"
                     THEN [@ EXCEPT !.pc = "log_read", !.obj = {new}]
                     ELSE [@ EXCEPT !.pc = "update",
                                    !.lost = @ \cup {"commit"},
                                    !.obj = {c \in commits : /\ c.branch = RaceBranch
                                                             /\ c.sha = item.sha}]])
       IN  Done(CommitCreate(commits, new))
    /\ last' = NoOp
    /\ UNCHANGED <<cfg, tasks, repos, branches, timeLogs, ghVars, now, ptl, parserVars>>

\* obj.update_message_if_changed(message), up to the save of the message
race_update(i) ==
    /\ RaceRuns[i].pc = "update"
    /\ LET item == Head(RaceRuns[i].items)
           obj  == CHOOSE c \in RaceRuns[i].obj : TRUE
       IN  IF item.message # obj.message
           THEN /\ commits' = {IF CommitKey(c) = CommitKey(obj)
                               THEN [c EXCEPT !.message = item.message] ELSE c :
                                 c \in commits}
                /\ workers' = Racing([RaceRuns EXCEPT ![i] =
                      [@ EXCEPT !.pc = "log_read",
                                !.obj = {[obj EXCEPT !.message = item.message]}]])
           ELSE /\ commits' = commits
                /\ workers' = Racing([RaceRuns EXCEPT ![i] = RacerNext(@)])
    /\ last' = NoOp
    /\ UNCHANGED <<cfg, tasks, repos, branches, timeLogs, ghVars, now, ptl, parserVars>>

\* refresh_time_log_from_message: log = getattr(self, "time_log", None)
race_log_read(i) ==
    /\ RaceRuns[i].pc = "log_read"
    /\ LET obj == CHOOSE c \in RaceRuns[i].obj : TRUE
       IN  workers' = Racing([RaceRuns EXCEPT ![i] =
               [@ EXCEPT !.pc = "log_write", !.seen = LogsOf(timeLogs, CommitKey(obj))]])
    /\ last' = NoOp
    /\ UNCHANGED <<dbVars, ghVars, now, ptl, parserVars>>

\* refresh_time_log_from_message, from the parse of the message on: the
\* delete, the save or the create of the time log
race_log_write(i) ==
    /\ RaceRuns[i].pc = "log_write"
    /\ LET obj == CHOOSE c \in RaceRuns[i].obj : TRUE
           Done(r) ==
               /\ timeLogs' = r.logs
               /\ workers' = Racing([RaceRuns EXCEPT ![i] =
                     IF Raised(r.op)
                     THEN [@ EXCEPT !.pc = "done", !.raised = r.op,
                                    !.lost = IF r.op = "IntegrityError"
                                             THEN @ \cup {"log"} ELSE @]
                     ELSE RacerNext(@)])
       IN  Done(refresh_time_log_from_message(timeLogs, tasks,
                   BranchOfCommit(obj).clickup_task, CommitKey(obj), obj.message,
                   RaceRuns[i].seen))
    /\ last' = NoOp
    /\ UNCHANGED <<cfg, tasks, repos, branches, commits, ghVars, now, ptl, parserVars>>

\* branch.last_commits_synced_at = timezone.now(); branch.save(update_fields=...)
race_cursor(i) ==
    /\ RaceRuns[i].pc = "cursor"
    /\ branches' = {IF BranchKey(b) = RaceBranch THEN CursorAdvanced(b) ELSE b :
                      b \in branches}
    /\ workers' = Racing([RaceRuns EXCEPT ![i] = [@ EXCEPT !.pc = "done"]])
    /\ last' = NoOp
    /\ UNCHANGED <<cfg, tasks, repos, commits, timeLogs, ghVars, now, ptl, parserVars>>

RaceNext ==
    \/ \E rp \in RepoIds : fetch_branches(rp, FALSE, {}, {}, 0)
    \/ \E i \in Racers, b \in branches, sl \in BOOLEAN : race_start(i, b, sl)
    \/ \E i \in Racers : race_get(i)
    \/ \E i \in Racers : race_insert(i)
    \/ \E i \in Racers : race_update(i)
    \/ \E i \in Racers : race_log_read(i)
    \/ \E i \in Racers : race_log_write(i)
    \/ \E i \in Racers : race_cursor(i)
    \/ \E rp \in RepoIds, m \in {Msg_45, Msg_wip} : gh_push(rp, Name_feat, "s1", m)
    \/ \E rp \in RepoIds, m \in {Msg_45, Msg_task, Msg_wip} :
          gh_reword(rp, Name_feat, "s1", m)

RaceSpec == Init /\ [][RaceNext]_vars

(***************************************************************************)
(* FilterSpec: the configuration has an allow-list of author emails, and   *)
(* a username or none; the branch gets a commit of the developer and a     *)
(* commit of another account that has no author email.                     *)
(***************************************************************************)
FilterShas == {"s1", "s3"}

FilterCfgs ==
    {[DevCfg EXCEPT !.username = u, !.preferred_author_emails = e] :
       u \in {"dev", ""}, e \in {{"dev@corp"}, {"dev@home"}}}

FilterInit ==
    /\ cfg \in FilterCfgs
    /\ tasks = {}
    /\ repos = [rp \in RepoIds |-> [is_active |-> TRUE, last_branches_synced_at |-> NoTime]]
    /\ branches = {}
    /\ commits = {}
    /\ timeLogs = {}
    /\ now = 0
    /\ last = NoOp
    /\ ptl = Idle
    /\ workers = Idle
    /\ ParserIdle
    /\ ghBranches = [rp \in RepoIds |-> {Name_feat}]
    /\ ghCommits = [key \in RepoIds \X BranchNames |-> {}]

FilterNext ==
    \/ \E rp \in RepoIds : fetch_branches(rp, FALSE, {}, {}, 0)
    \/ \E b \in branches, sl \in BOOLEAN : sync_branch_commits(b, sl, 0)
    \/ \E rp \in RepoIds, sha \in FilterShas, m \in {Msg_wip, Msg_45} :
          gh_push(rp, Name_feat, sha, m)

FilterSpec == FilterInit /\ [][FilterNext]_vars

(***************************************************************************)
(* ConfigSpec: the configuration row is deleted, or saved with an empty    *)
(* token, at some moment between the reconcilers' runs.                    *)
(***************************************************************************)
MissingCfgs ==
    {[DevCfg EXCEPT !.exists = FALSE], [DevCfg EXCEPT !.personal_access_token = FALSE]}

\* the admin deletes the GithubConfiguration row or saves it without token
config_lost(c) ==
    /\ cfg = DevCfg
    /\ cfg' = c
    /\ last' = NoOp
    /\ UNCHANGED <<tasks, repos, branches, commits, timeLogs, ghVars, now, ptl,
                   workers, parserVars>>

ConfigNext ==
    \/ \E rp \in RepoIds : fetch_branches(rp, FALSE, {}, {}, 0)
    \/ \E b \in branches : sync_branch_commits(b, TRUE, 0)
    \/ \E rp \in RepoIds : sync_repo(rp, FALSE, BranchOrder, NoFail)
    \/ \E c \in MissingCfgs : config_lost(c)
    \/ \E rp \in RepoIds : gh_create_branch(rp, Name_main)
    \/ \E rp \in RepoIds, nm \in BranchNames, m \in {Msg_wip, Msg_45} :
          gh_push(rp, nm, "s1", m)
    \/ tick

ConfigSpec == Init /\ [][ConfigNext]_vars

(***************************************************************************)
(* The parser on its own: a message is typed character by character after  *)
(* one of a few starting texts, and parsed after every character.          *)
(***************************************************************************)
\* The characters typed: one or two of every class the pattern tells apart.
TypedChars == {"#", "~", "0", "1", "3", "h", "m", "M", " ", ".", "x"}

\* How many characters are typed after the starting text.
MaxTyped == 3

Text_empty      == <<>>
Text_fix_bug    == <<"f", "i", "x", " ", "b", "u", "g", " ", "#", "I", "-", "0", "0", "2", " ", "1", "h", "3", "0", "m">>
Text_quick      == <<"q", "u", "i", "c", "k", " ", "p", "a", "t", "c", "h", " ", "~", "4", "5", "m", ".">>
Text_no_time    == <<"n", "o", " ", "t", "i", "m", "e", " ", "h", "e", "r", "e">>
Text_zero       == <<"#", "T", "1", " ", "0", "h", "0", "m">>
Text_task       == <<"#", "T", "1", " ">>
Text_task_hour  == <<"#", "T", "1", " ", "1", "h">>
Text_zero_first == <<"~", "0", "m", " ">>
Text_hour_first == <<"~", "1", "H", " ">>
Text_45m        == <<"~", "4", "5", "m">>

StartTexts ==
    {Text_empty, Text_fix_bug, Text_quick, Text_no_time, Text_zero, Text_task,
     Text_task_hour, Text_zero_first, Text_hour_first, Text_45m}

ParserInit ==
    /\ pmsg \in StartTexts
    /\ pdraft = Draft(pmsg)
    /\ DbInit
    /\ ghBranches = [rp \in RepoIds |-> {}]
    /\ ghCommits = [key \in RepoIds \X BranchNames |-> {}]

\* one more character, and refresh_time_log_from_message's parse of the result
TypeAndParse(c) ==
    /\ \E t \in StartTexts :
          /\ Len(pmsg) >= Len(t)
          /\ SubSeq(pmsg, 1, Len(t)) = t
          /\ Len(pmsg) - Len(t) < MaxTyped
    /\ pmsg' = Append(pmsg, c)
    /\ pdraft' = Draft(pmsg')
    /\ UNCHANGED <<dbVars, ghVars, now, last, ptl, workers>>

ParserNext == \E c \in TypedChars : TypeAndParse(c)

ParserSpec == ParserInit /\ [][ParserNext]_vars

(***************************************************************************)
(* What the claims about the reconcilers speak of.                         *)
(***************************************************************************)
\* the task a time log of commit c is to carry: the task the draft's token
\* names in the task index, else the task of the commit's branch
ExpectedTask(c, d) ==
    IF d.task_id # NoText /\ ResolveTask(tasks, d.task_id) # NoTask
    THEN ResolveTask(tasks, d.task_id)
    ELSE BranchOfCommit(c).clickup_task

\* the time-log row l carries what the draft d of commit c says
FromDraft(l, c, d) ==
    /\ l.total_minutes = d.total_minutes
    /\ l.parsed_from_message = d.parsed_from_message
    /\ l.task_id = d.task_id
    /\ l.clickup_task = ExpectedTask(c, d)

RefreshRan == last.op = "refresh_time_logs" /\ last.raised = ""

SyncRan == last.op = "sync_branch_commits" /\ last.raised = ""

(***************************************************************************)
(* C1.  Whatever syncs, message rewrites and time-log refreshes ran, one   *)
(* after the other or a refresh task beside them: a commit has at most one *)
(* time log.                                                               *)
(***************************************************************************)
C1_AtMostOneTimeLog ==
    /\ \A c \in commits : Cardinality(LogsOf(timeLogs, CommitKey(c))) <= 1
    /\ \A l \in timeLogs : \E c \in commits : CommitKey(c) = l.commit

\* a task that had read "no time log" came to create one when the commit had
\* got one meanwhile: the insert was refused, the commit has its one log
C1_Witness ==
    /\ last.op = "process_commit_time_log"
    /\ last.raised = "IntegrityError"
    /\ Cardinality(LogsOf(timeLogs, last.commit)) = 1

(***************************************************************************)
(* C2.  Whatever was pushed, reworded and synced: a commit row has a time  *)
(* log if and only if its stored message gives a draft, and the minutes of *)
(* the log are the minutes of that draft.                                  *)
(***************************************************************************)
C2_LogIffDraft ==
    \A c \in commits :
       /\ (LogsOf(timeLogs, CommitKey(c)) # {}) = Draft(c.message).found
       /\ \A l \in LogsOf(timeLogs, CommitKey(c)) :
             l.total_minutes = Draft(c.message).total_minutes

\* a sync stored a rewritten message for a commit, and the commit has a log of
\* the new message
C2_Witness ==
    /\ SyncRan
    /\ \E c \in commits :
          /\ CommitKey(c) \in last.reworded
          /\ Draft(c.message).found
          /\ LogsOf(timeLogs, CommitKey(c)) # {}

(***************************************************************************)
(* C3.  A second run of the branch reconciler right after a first, with    *)
(* the same remote branch listing and the same task index, writes nothing: *)
(* no branch row and no field of the repository.                           *)
(***************************************************************************)
C3_SecondRunWritesNothing ==
    (last.op = "fetch_branches" /\ last.again) => last.writes = 0

(***************************************************************************)
(* C3, as the code has it.  The second run creates no branch row, sets     *)
(* none inactive and leaves every branch row as it was; what it writes is  *)
(* one save for every listed branch (update_or_create) and the             *)
(* repository's last_branches_synced_at.                                   *)
(***************************************************************************)
C3_SecondRunChangesNoRow ==
    (last.op = "fetch_branches" /\ last.again) =>
       /\ last.same_rows
       /\ last.ret.created = 0
       /\ last.ret.inactivated = 0
       /\ last.writes = last.ret.updated + 1

\* a second run over a listing with a branch in it, while another branch of
\* the repository is inactive and not listed
C3_Witness ==
    /\ last.op = "fetch_branches" /\ last.again
    /\ last.ret.updated >= 1
    /\ \E b \in branches : ~b.is_active

(***************************************************************************)
(* C4.  A re-run of the time-log reconciler on a commit whose time log     *)
(* already carries what the message and the task index give writes         *)
(* nothing: the log is afterwards as it was, the synced flag included.     *)
(***************************************************************************)
C4_RerunWritesNothing ==
    RefreshRan =>
       \A r \in last.results :
          (/\ r.before # {}
           /\ Draft(CommitAt(r.commit).message).found
           /\ \A l \in r.before :
                 FromDraft(l, CommitAt(r.commit), Draft(CommitAt(r.commit).message)))
          => r.after = r.before

(***************************************************************************)
(* C5.  Two runs of the time-log reconciler in a row, nothing changed in   *)
(* between: for a commit that had a time log before the first run, both    *)
(* runs report unchanged.                                                  *)
(***************************************************************************)
C5_UnchangedTwice ==
    RefreshRan =>
       \A r \in last.results : \A p \in last.prev :
          (p.commit = r.commit /\ p.had_log) =>
             p.outcome = "unchanged" /\ r.outcome = "unchanged"

C5_Witness ==
    /\ RefreshRan
    /\ \E r \in last.results : \E p \in last.prev :
          /\ p.commit = r.commit /\ p.had_log
          /\ r.outcome = "unchanged"
          /\ last.ret.unchanged >= 1

C7_PositiveMinutes ==
    /\ \A l \in timeLogs : l.total_minutes > 0
    /\ \A c \in commits : c.message = Msg_zero => LogsOf(timeLogs, CommitKey(c)) = {}

\* a sync stored "#T1 0h0m" for a commit that had a time log, and removed it
C7_Witness ==
    /\ SyncRan
    /\ \E c \in commits :
          /\ c.message = Msg_zero
          /\ CommitKey(c) \in last.reworded
          /\ CommitKey(c) \in last.removed

(***************************************************************************)
(* The grammar of the smart-commit token, stated on its own: which pieces  *)
(* of a text have the shape of a token, without any order of matching.     *)
(***************************************************************************)
AllIn(t, cls) == \A k \in 1 .. Len(t) : t[k] \in cls

IsNumber(t) == t # <<>> /\ AllIn(t, Digits)

\* the values <<hours, minutes>> a text can be read as: Nh, NhNm or Nm
DurationReadings(t) ==
    {<<ToInt(SubSeq(t, 1, a)), ToInt(SubSeq(t, a + 2, Len(t) - 1))>> :
       a \in {x \in 1 .. Len(t) - 3 :
                /\ IsNumber(SubSeq(t, 1, x)) /\ IsH(t[x + 1])
                /\ IsNumber(SubSeq(t, x + 2, Len(t) - 1)) /\ IsM(t[Len(t)])}}
    \cup {<<ToInt(SubSeq(t, 1, Len(t) - 1)), 0>> :
            x \in {y \in {Len(t)} : y >= 2 /\ IsNumber(SubSeq(t, 1, y - 1)) /\ IsH(t[y])}}
    \cup {<<0, ToInt(SubSeq(t, 1, Len(t) - 1))>> :
            x \in {y \in {Len(t)} : y >= 2 /\ IsNumber(SubSeq(t, 1, y - 1)) /\ IsM(t[y])}}

IsDuration(t) == DurationReadings(t) # {}

\* end-of-string, whitespace or one of . , ; : ! ? ) ] at position e
FollowOk(s, e) == e > Len(s) \/ s[e] \in Whitespace \cup Terminators

\* the positions e at which a piece of s starting at i and shaped like a
\* token (~dur, or #id, whitespace, dur) ends, whatever follows it
ShapeEnds(s, i) ==
    {e \in i + 1 .. Len(s) + 1 :
       \/ s[i] = "~" /\ IsDuration(SubSeq(s, i + 1, e - 1))
       \/ /\ s[i] = "#"
          /\ \E n \in 1 .. e - i - 2 : \E t \in i + n + 2 .. e - 1 :
                /\ AllIn(SubSeq(s, i + 1, i + n), TaskIdChars)
                /\ AllIn(SubSeq(s, i + n + 1, t - 1), Whitespace)
                /\ IsDuration(SubSeq(s, t, e - 1))}

\* a grammar-valid token starts at i
ValidTokenAt(s, i) == \E e \in ShapeEnds(s, i) : FollowOk(s, e)

ValidStarts(s) == {i \in 1 .. Len(s) : ValidTokenAt(s, i)}

(***************************************************************************)
(* C8.  The draft of a message is read off the token the pattern matched:  *)
(* with a task-form token #<token> <dur> the task token is <token>, with   *)
(* ~<dur> there is none, and the minutes are 60 * hours + minutes of <dur> *)
(* with h and m in either case; no match gives no draft.  "fix bug #I-002  *)
(* 1h30m" gives 90 minutes for I-002, "quick patch ~45m." 45 minutes and   *)
(* no task token, "no time here" no draft.                                 *)
(***************************************************************************)
C8_DraftValues ==
    LET m   == Search(pmsg)
        dur == IF m.time_task # NoText THEN m.time_task ELSE m.time_only
    IN  /\ ~m.matched => ~pdraft.found
        /\ m.matched =>
              /\ \E hm \in DurationReadings(dur) : DurationReadings(dur) = {hm}
              /\ \A hm \in DurationReadings(dur) :
                    60 * hm[1] + hm[2] > 0 =>
                       /\ pdraft.found
                       /\ pdraft.total_minutes = 60 * hm[1] + hm[2]
                       /\ pdraft.task_id = m.task_id
                       /\ (pmsg[m.start] = "~") = (pdraft.task_id = NoText)
                       /\ pmsg[m.start] = "#" =>
                             pdraft.task_id =
                               SubSeq(pmsg, m.start + 1, m.start + Len(pdraft.task_id))
        /\ pmsg = Text_fix_bug =>
              /\ pdraft.found /\ pdraft.total_minutes = 90
              /\ pdraft.task_id = <<"I", "-", "0", "0", "2">>
        /\ pmsg = Text_quick =>
              pdraft.found /\ pdraft.total_minutes = 45 /\ pdraft.task_id = NoText
        /\ pmsg = Text_no_time => ~pdraft.found

\* "#T1 1h30M" was typed and parsed: hours and minutes both count, M in
\* upper case
C8_Witness ==
    /\ pmsg = Text_task_hour \o <<"3", "0", "M">>
    /\ pdraft.found
    /\ pdraft.total_minutes = 90
    /\ pdraft.task_id = <<"T", "1">>

(***************************************************************************)
(* C9.  When a message holds grammar-valid tokens, the match is the one    *)
(* that starts leftmost, and the draft is what the message cut right after *)
(* that token gives: nothing behind the leftmost token has any influence.  *)
(***************************************************************************)
C9_LeftmostWins ==
    LET starts == ValidStarts(pmsg)
        m      == Search(pmsg)
    IN  starts # {} =>
           /\ m.matched
           /\ m.start = SetMin(starts)
           /\ pdraft = Draft(SubSeq(pmsg, 1, Min2(m.end, Len(pmsg))))
           /\ pdraft = Draft(SubSeq(pmsg, m.start, m.end - 1))

\* two tokens in one message, and the later one alone would give a draft with
\* other minutes than the draft of the message
C9_Witness ==
    /\ Cardinality(ValidStarts(pmsg)) >= 2
    /\ pdraft.found
    /\ Draft(SubSeq(pmsg, SetMax(ValidStarts(pmsg)), Len(pmsg))).found
    /\ Draft(SubSeq(pmsg, SetMax(ValidStarts(pmsg)), Len(pmsg))).total_minutes
          # pdraft.total_minutes

(***************************************************************************)
(* C10.  A match ends where end-of-string, whitespace or one of            *)
(* . , ; : ! ? ) ] follows; where the longest token-shaped piece from a    *)
(* position is followed by anything else there is no match from that       *)
(* position, not even on a shorter duration; and a message all of whose    *)
(* token-shaped pieces are like that gives no draft.                       *)
(***************************************************************************)
C10_FollowedByBoundary ==
    LET ends    == [i \in 1 .. Len(pmsg) |-> ShapeEnds(pmsg, i)]
        at      == [i \in 1 .. Len(pmsg) |-> MatchAt(pmsg, i)]
        blocked == {i \in 1 .. Len(pmsg) :
                      ends[i] # {} /\ ~FollowOk(pmsg, SetMax(ends[i]))}
    IN  /\ \A i \in 1 .. Len(pmsg) :
              /\ at[i].matched => FollowOk(pmsg, at[i].end)
              /\ i \in blocked => ~at[i].matched
        /\ (\A i \in 1 .. Len(pmsg) : ends[i] # {} => i \in blocked) => ~pdraft.found

\* "~45mx" and "#T1 1h30": a duration with a letter or a digit behind it
C10_Witness ==
    /\ pmsg \in {Text_45m \o <<"x">>, Text_task_hour \o <<"3", "0">>}
    /\ ShapeEnds(pmsg, 1) # {}
    /\ ~pdraft.found

(***************************************************************************)
(* C11.  When the time-log reconciler built or rewrote a time log from a   *)
(* draft, the log's task is a task whose short id or external id is the    *)
(* draft's task token, if the draft has a token and the task index has     *)
(* such a task; else it is the task linked to the commit's branch, or none *)
(* if the branch has no link.                                              *)
(***************************************************************************)
C11_TaskOfLog ==
    RefreshRan =>
       \A r \in last.results : \A l \in r.after :
          LET token == Draft(CommitAt(r.commit).message).task_id
              named == {t \in tasks : t.user_friendly_id = token \/ t.clickup_id = token}
          IN  (r.op \in {"create", "update"}) =>
                 IF token # NoText /\ named # {}
                 THEN \E t \in named : l.clickup_task = t.id
                 ELSE l.clickup_task = BranchOfCommit(CommitAt(r.commit)).clickup_task

\* a log whose token names a task by its external id while the branch is
\* linked to another task
C11_Witness ==
    /\ RefreshRan
    /\ \E r \in last.results : \E l \in r.after :
          /\ r.op \in {"create", "update"}
          /\ l.task_id = Task_86c2.clickup_id
          /\ l.clickup_task = Task_86c2.id
          /\ BranchOfCommit(CommitAt(r.commit)).clickup_task = Task_I002.id

(***************************************************************************)
(* What the claims about the branch reconciler speak of.                   *)
(***************************************************************************)
\* the names in a listing of branches
ListedNames(listing) == {listing[k].name : k \in 1 .. Len(listing)}

\* the listed names a run of fetch_branches with these arguments passes over
ExcludedNames(rp, listing, only_user_branches, filterErr) ==
    {n \in ListedNames(listing) :
       /\ only_user_branches /\ cfg.exists /\ cfg.username # ""
       /\ n \in filterErr \/ ~branch_has_author_commit(rp, n, cfg.username)}

\* the active branch rows of repository rp that a listing does not name
OmittedActive(rp, listing) ==
    {b \in branches : b.repo = rp /\ b.is_active /\ b.name \notin ListedNames(listing)}

(***************************************************************************)
(* C12.  A run of the branch reconciler whose remote listing omits exactly *)
(* one active local branch sets exactly that branch inactive and leaves    *)
(* every other branch row of the repository as it was.                     *)
(***************************************************************************)
C12_OthersUntouched ==
    [][(/\ last'.op = "fetch_branches" /\ last'.raised = ""
        /\ Cardinality(OmittedActive(last'.repo, last'.listing)) = 1)
       => \A b \in branches :
             IF b \in OmittedActive(last'.repo, last'.listing)
             THEN [b EXCEPT !.is_active = FALSE] \in branches'
             ELSE b \in branches']_vars

(***************************************************************************)
(* C12, as the code has it.  A run of the branch reconciler that does not  *)
(* raise removes no branch row; a row whose name the run did not see (not  *)
(* listed, or passed over by the author filter) is afterwards as it was    *)
(* but inactive; a row whose name it saw is afterwards active, with the    *)
(* head and the protected flag of the listing and its cursor as before.    *)
(* So when the listing omits exactly one active branch and the filter      *)
(* passes over none, exactly that branch goes from active to inactive.     *)
(***************************************************************************)
C12_FlipsExactlyTheUnseen ==
    [][(last'.op = "fetch_branches" /\ last'.raised = "") =>
       LET rp       == last'.repo
           listing  == last'.listing
           excluded == ExcludedNames(rp, listing, last'.only_user_branches,
                                     last'.filterErr)
           seen     == ListedNames(listing) \ excluded
           After(b) == CHOOSE x \in branches' : BranchKey(x) = BranchKey(b)
           Entry(n) == listing[CHOOSE k \in 1 .. Len(listing) : listing[k].name = n]
       IN  /\ \A b \in branches : \E x \in branches' : BranchKey(x) = BranchKey(b)
           /\ \A b \in branches :
                 IF b.repo = rp /\ b.name \in seen
                 THEN /\ After(b).is_active
                      /\ After(b).head_sha = Entry(b.name).sha
                      /\ After(b).protected = Entry(b.name).protected
                      /\ After(b).last_commits_synced_at = b.last_commits_synced_at
                 ELSE After(b) = [b EXCEPT !.is_active = FALSE]
           /\ (Cardinality(OmittedActive(rp, listing)) = 1 /\ excluded = {}) =>
                 {b \in branches : b.is_active /\ ~After(b).is_active}
                    = OmittedActive(rp, listing)]_vars

\* a run that set one branch inactive and saved another, listed, branch
C12_Witness ==
    /\ last.op = "fetch_branches" /\ last.raised = ""
    /\ ~last.only_user_branches
    /\ last.ret.inactivated = 1
    /\ last.ret.updated >= 1
    /\ ~last.same_rows

(***************************************************************************)
(* C13.  Whatever fetch_branches, sync_branch_commits, sync_repo and       *)
(* sync_all_repos do, and whether or not they raise: no step removes a     *)
(* branch row or a commit row, and every commit row has its branch row,    *)
(* also when the branch was set inactive.                                  *)
(***************************************************************************)
C13_RecordsOnlyGrow ==
    /\ [](\A c \in commits : \E b \in branches : BranchKey(b) = c.branch)
    /\ [][/\ \A b \in branches : \E x \in branches' : BranchKey(x) = BranchKey(b)
          /\ \A c \in commits : \E x \in commits' : CommitKey(x) = CommitKey(c)]_vars

\* sync_repo or sync_all_repos ran, and a branch that is inactive has a commit
C13_Witness ==
    /\ last.op \in {"sync_repo", "sync_all_repos"}
    /\ \E b \in branches :
          /\ ~b.is_active
          /\ \E c \in commits : c.branch = BranchKey(b)

(***************************************************************************)
(* What the claims about the commit reconciler speak of.                   *)
(***************************************************************************)
\* the commits of the branch with key bkey on the code host that pass the
\* filters of sync_branch_commits: the author sent with the request and the
\* allow-list of emails
PassingCommits(bkey) ==
    {x \in RemoteCommits(bkey[1], bkey[2]) :
       /\ cfg.username = "" \/ ShaAuthor(x.sha).login = cfg.username
       /\ \/ cfg.preferred_author_emails = {}
          \/ ShaAuthor(x.sha).email = ""
          \/ ShaAuthor(x.sha).email \in cfg.preferred_author_emails
          \/ ShaAuthor(x.sha).login = cfg.username}

HasRecord(rows, bkey, sha) == \E c \in rows : c.branch = bkey /\ c.sha = sha

C15_SinceIsTheCursor ==
    SyncRan =>
       /\ last.since = last.cursor
       /\ \A b \in branches :
             BranchKey(b) = last.branch => b.last_commits_synced_at = now

(***************************************************************************)
(* C15, as the code has it.  Called with since_last true, which is the     *)
(* default and what sync_repo does, sync_branch_commits requests the       *)
(* commits since the branch's cursor if it has one; with since_last false, *)
(* or without a cursor, it requests the full history.  A run that did not  *)
(* raise creates rows only for commits the request covers, leaves a row    *)
(* for every commit it covers that passes the filters, and sets the cursor *)
(* to the time of the run, whether or not a commit came back.              *)
(***************************************************************************)
C15_SinceIsTheCursorIfAsked ==
    /\ [](SyncRan =>
            last.since = IF last.since_last /\ last.cursor # NoTime
                         THEN last.cursor ELSE NoTime)
    /\ [][(last'.op = "sync_branch_commits" /\ last'.raised = "") =>
          LET bkey  == last'.branch
              since == last'.since
              Covered(sha) == since = NoTime \/ ShaDate(sha) >= since
          IN  /\ \A b \in branches' :
                    BranchKey(b) = bkey => b.last_commits_synced_at = now
              /\ \A c \in commits' :
                    (c.branch = bkey /\ ~HasRecord(commits, bkey, c.sha))
                       => Covered(c.sha)
              /\ \A x \in PassingCommits(bkey) :
                    Covered(x.sha) => HasRecord(commits', bkey, x.sha)]_vars

\* a run with a cursor that got no commit back, while the branch has on the
\* code host a commit dated before the time of the run: the cursor is the
\* time of the run
C15_Witness ==
    /\ SyncRan
    /\ last.since_last /\ last.cursor # NoTime
    /\ last.ret.processed = 0
    /\ \E b \in branches :
          /\ BranchKey(b) = last.branch
          /\ b.last_commits_synced_at = now
          /\ \E x \in RemoteCommits(b.repo, b.name) : ShaDate(x.sha) < now

(***************************************************************************)
(* C16.  A run of sync_all_repos calls sync_repo for every active          *)
(* repository, also when the sync of one of them raised.                   *)
(***************************************************************************)
C16_EveryActiveRepoAttempted ==
    last.op = "sync_all_repos" => last.attempted = last.active

(***************************************************************************)
(* C17.  With an allow-list of author emails configured, a run of          *)
(* sync_branch_commits creates a commit row only for a commit whose author *)
(* email is in the allow-list or whose author handle is the configured     *)
(* username; any other commit, one without an author email included, gets  *)
(* no row.                                                                 *)
(***************************************************************************)
C17_OnlyAllowedAuthors ==
    [][(last'.op = "sync_branch_commits" /\ cfg.preferred_author_emails # {}) =>
       \A c \in commits' :
          (c.branch = last'.branch /\ ~HasRecord(commits, c.branch, c.sha)) =>
             \/ ShaAuthor(c.sha).email \in cfg.preferred_author_emails
             \/ ShaAuthor(c.sha).login = cfg.username]_vars

\* the commits of the branch with key bkey that a listing with this since
\* parameter gives and that pass the filters
ListedCommits(bkey, since) ==
    {x \in PassingCommits(bkey) : since = NoTime \/ ShaDate(x.sha) >= since}

(***************************************************************************)
(* C18.  When a run of sync_branch_commits gets, for a commit it has a row *)
(* of, a message other than the stored one, then afterwards the row has    *)
(* the new message and the commit has a time log exactly when the new      *)
(* message gives a draft, with the draft's minutes; so a rewrite from a    *)
(* message with a token to a message without one deletes the time log.     *)
(***************************************************************************)
C18_RewordRederivesLog ==
    [][(last'.op = "sync_branch_commits" /\ last'.raised = "") =>
       \A c \in commits : \A x \in ListedCommits(last'.branch, last'.since) :
          (c.branch = last'.branch /\ c.sha = x.sha /\ c.message # x.message) =>
             /\ [c EXCEPT !.message = x.message] \in commits'
             /\ c \notin commits'
             /\ (LogsOf(timeLogs', CommitKey(c)) # {}) = DraftOf(x.message).found
             /\ \A l \in LogsOf(timeLogs', CommitKey(c)) :
                   l.total_minutes = DraftOf(x.message).total_minutes
             /\ (DraftOf(c.message).found /\ ~DraftOf(x.message).found) =>
                   /\ LogsOf(timeLogs, CommitKey(c)) # {}
                   /\ LogsOf(timeLogs', CommitKey(c)) = {}]_vars

\* a run stored a message without a token for a commit and removed its time
\* log
C18_Witness ==
    /\ SyncRan
    /\ \E ck \in last.reworded :
          /\ ck \in last.removed
          /\ ~DraftOf(CommitAt(ck).message).found
          /\ LogsOf(timeLogs, ck) = {}

(***************************************************************************)
(* C19.  When a run of sync_branch_commits gets, for a commit it has a row *)
(* of, the message that is stored, it writes neither the commit row nor    *)
(* the commit's time log: both are afterwards as they were, a time log     *)
(* that was marked synced included.                                        *)
(***************************************************************************)
C19_SameMessageNoWrite ==
    [][(last'.op = "sync_branch_commits") =>
       \A c \in commits :
          (/\ c.branch = last'.branch
           /\ \E x \in RemoteCommits(c.branch[1], c.branch[2]) :
                 x.sha = c.sha /\ x.message = c.message)
          => /\ c \in commits'
             /\ LogsOf(timeLogs', CommitKey(c)) = LogsOf(timeLogs, CommitKey(c))]_vars

\* a run that processed a commit whose message is the stored one and whose
\* time log is marked synced
C19_Witness ==
    /\ SyncRan
    /\ last.ret.processed >= 1
    /\ last.reworded = {}
    /\ \E c \in commits : \E l \in LogsOf(timeLogs, CommitKey(c)) :
          /\ c.branch = last.branch
          /\ l.is_synced_with_clickup
          /\ \E x \in ListedCommits(last.branch, last.since) :
                x.sha = c.sha /\ x.message = c.message

(***************************************************************************)
(* C20.  The summary sync_branch_commits returns counts what the run did:  *)
(* created is the number of commit rows the run created, updated the       *)
(* number of rows whose stored message it changed, processed the number of *)
(* listed commits that passed the filters.                                 *)
(***************************************************************************)
C20_SummaryCounts ==
    [][(last'.op = "sync_branch_commits" /\ last'.raised = "") =>
       /\ last'.ret.created =
             Cardinality({c \in commits' : ~HasRecord(commits, c.branch, c.sha)})
       /\ last'.ret.updated = Cardinality(commits \ commits')
       /\ last'.ret.processed =
             Cardinality(ListedCommits(last'.branch, last'.since))]_vars

(***************************************************************************)
(* C21.  A run of sync_repo that does not raise has reconciled the         *)
(* branches first (the repository's last_branches_synced_at is the time of *)
(* the run) and then the commits of exactly the branches of the repository *)
(* that are active after that; a branch of the repository that is inactive *)
(* after the branch reconciliation, one set inactive in this run included, *)
(* keeps its cursor and its commit rows as they were.                      *)
(***************************************************************************)
C21_CommitsOfActiveBranchesOnly ==
    [][(last'.op = "sync_repo" /\ last'.raised = "") =>
       LET rp == last'.repo
       IN  /\ repos'[rp].last_branches_synced_at = now
           /\ last'.done = {b.name : b \in {x \in branches' : x.repo = rp /\ x.is_active}}
           /\ \A b \in branches' :
                 (b.repo = rp /\ b.is_active) => b.last_commits_synced_at = now
           /\ \A b \in branches :
                 (b.repo = rp /\ \E x \in branches' :
                                    BranchKey(x) = BranchKey(b) /\ ~x.is_active) =>
                    /\ [b EXCEPT !.is_active = FALSE] \in branches'
                    /\ {c \in commits' : c.branch = BranchKey(b)}
                          = {c \in commits : c.branch = BranchKey(b)}]_vars

\* a run set one branch inactive and synced another; the inactive branch has
\* a cursor from an earlier run and a commit
C21_Witness ==
    /\ last.op = "sync_repo" /\ last.raised = ""
    /\ last.ret.branches.inactivated = 1
    /\ last.done # {}
    /\ \E b \in branches :
          /\ b.repo = last.repo /\ ~b.is_active
          /\ b.last_commits_synced_at # NoTime
          /\ \E c \in commits : c.branch = BranchKey(b)

(***************************************************************************)
(* C22.  When, in a run of fetch_branches whose branch listing does not    *)
(* fail, the author-commit check raises for some listed branches, the run  *)
(* does not raise: such a branch gets no row, and a row it has is not      *)
(* upserted (it is swept like a branch not seen); every other listed       *)
(* branch that passes the filter is upserted, and the run ends with the    *)
(* repository's timestamp set and its summary returned.                    *)
(***************************************************************************)
C22_FilterErrorExcludes ==
    [][(last'.op = "fetch_branches" /\ last'.filterErr # {} /\ last'.failReq = 0) =>
       LET rp      == last'.repo
           listing == last'.listing
           passing == ListedNames(listing) \
                        ExcludedNames(rp, listing, last'.only_user_branches,
                                      last'.filterErr)
       IN  /\ last'.raised = ""
           /\ \A n \in last'.filterErr :
                 /\ BranchRows(branches, <<rp, n>>) = {} =>
                       BranchRows(branches', <<rp, n>>) = {}
                 /\ \A b \in BranchRows(branches, <<rp, n>>) :
                       [b EXCEPT !.is_active = FALSE] \in branches'
           /\ \A n \in passing :
                 \E b \in BranchRows(branches', <<rp, n>>) : b.is_active
           /\ last'.ret.created + last'.ret.updated = Cardinality(passing)
           /\ repos'[rp].last_branches_synced_at = now]_vars

\* the check raised for one listed branch, and another listed branch was
\* upserted in the same run
C22_Witness ==
    /\ last.op = "fetch_branches" /\ last.raised = ""
    /\ Cardinality(last.filterErr) = 1
    /\ Len(last.listing) = 2
    /\ last.ret.created + last.ret.updated = 1
    /\ \A n \in last.filterErr : BranchRows(branches, <<last.repo, n>>) = {}

\* C23: a failure while linking one branch to its task does not abort
\* fetch_branches: the run raises nothing, every listed branch has its active
\* row, the rows of the repository that are not listed are inactive, and the
\* summary is returned.
C23_LinkFailureDoesNotAbort ==
    (/\ last.op = "fetch_branches" /\ last.raised # "ValueError"
     /\ last.linkErr # {} /\ last.failReq = 0)
    => /\ last.raised = ""
       /\ "active_count" \in DOMAIN last.ret
       /\ \A nm \in ListedNames(last.listing) :
             \E b \in branches : BranchKey(b) = <<last.repo, nm>> /\ b.is_active
       /\ \A b \in branches :
             b.repo = last.repo /\ b.name \notin ListedNames(last.listing)
             => ~b.is_active

(***************************************************************************)
(* C24.  Without a configuration row, or with a row that has no token,     *)
(* fetch_branches, sync_branch_commits and sync_repo raise ValueError and  *)
(* the step writes no repository, branch, commit or time-log row.          *)
(***************************************************************************)
C24_NoWriteWithoutConfig ==
    [][(/\ last'.op \in {"fetch_branches", "sync_branch_commits", "sync_repo"}
        /\ ~cfg.exists \/ ~cfg.personal_access_token)
       => /\ last'.raised = "ValueError"
          /\ UNCHANGED <<repos, branches, commits, timeLogs>>]_vars

\* sync_repo met the missing token while a pushed commit of a local branch
\* is not yet in the database
C24_Witness ==
    /\ last.op = "sync_repo" /\ last.raised = "ValueError"
    /\ cfg.exists /\ ~cfg.personal_access_token
    /\ \E b \in branches :
          \E c \in RemoteCommits(b.repo, b.name) :
             ~HasRecord(commits, BranchKey(b), c.sha)

\* the remote branches of rp that have a commit of the configured user
AuthoredNames(rp) ==
    {nm \in ghBranches[rp] :
       \E c \in RemoteCommits(rp, nm) : ShaAuthor(c.sha).login = cfg.username}

(***************************************************************************)
(* C25.  A first sync_repo of a repository with two remote branches, one   *)
(* with a commit of the configured user and one without: afterwards the    *)
(* repository has a branch row for the first branch only, every commit of  *)
(* that branch that passes the filters has its row, and no commit row      *)
(* belongs to the other branch.                                            *)
(***************************************************************************)
C25_OnlyTheAuthoredBranch ==
    [][(/\ last'.op = "sync_repo" /\ last'.raised = ""
        /\ ~\E b \in branches : b.repo = last'.repo
        /\ Cardinality(ghBranches[last'.repo]) = 2
        /\ Cardinality(AuthoredNames(last'.repo)) = 1)
       => LET rp == last'.repo
          IN  /\ {b.name : b \in {x \in branches' : x.repo = rp}} = AuthoredNames(rp)
              /\ \A c \in commits' : c.branch[1] = rp => c.branch[2] \in AuthoredNames(rp)
              /\ \A nm \in AuthoredNames(rp) :
                    \A x \in PassingCommits(<<rp, nm>>) :
                       HasRecord(commits', <<rp, nm>>, x.sha)]_vars

\* the first sync made the one row, of the branch with the user's commit, and
\* the row of that commit, while the other branch holds a commit of the bot
C25_Witness ==
    /\ last.op = "sync_repo" /\ last.raised = ""
    /\ last.ret.branches.created = 1 /\ last.ret.branches.updated = 0
    /\ last.ret.commits_created = 1
    /\ Cardinality({b \in branches : b.repo = last.repo}) = 1
    /\ Cardinality(ghBranches[last.repo]) = 2
    /\ Cardinality(AuthoredNames(last.repo)) = 1
    /\ \E nm \in ghBranches[last.repo] \ AuthoredNames(last.repo) :
          RemoteCommits(last.repo, nm) # {}

(***************************************************************************)
(* C26.  The outcome refresh_time_logs counts for a commit names what      *)
(* happened to its time log: created when there was none and there is one, *)
(* deleted when there was one and there is none, updated when there is one *)
(* before and after with other minutes, unchanged when there is one before *)
(* and after with the same minutes (a commit without a log before and      *)
(* after counts as unchanged, or is not counted).                          *)
(***************************************************************************)
C26_OutcomeNamesTransition ==
    (last.op = "refresh_time_logs" /\ last.raised = "") =>
       \A r \in last.results :
          LET Minutes(rows) == (CHOOSE l \in rows : TRUE).total_minutes
          IN  r.outcome \in
                IF r.before = {} /\ r.after # {} THEN {"created"}
                ELSE IF r.before # {} /\ r.after = {} THEN {"deleted"}
                ELSE IF r.before = {} THEN {"unchanged", "uncounted"}
                ELSE IF Minutes(r.before) # Minutes(r.after) THEN {"updated"}
                ELSE {"unchanged"}

\* a text that reads as a duration of more than 0 minutes
IsPositiveDuration(t) == \E hm \in DurationReadings(t) : 60 * hm[1] + hm[2] > 0

\* a grammar-valid token of more than 0 minutes starts at i
PositiveTokenAt(s, i) ==
    \E e \in {x \in ShapeEnds(s, i) : FollowOk(s, x)} :
       \/ s[i] = "~" /\ IsPositiveDuration(SubSeq(s, i + 1, e - 1))
       \/ /\ s[i] = "#"
          /\ \E n \in 1 .. e - i - 2 : \E t \in i + n + 2 .. e - 1 :
                /\ AllIn(SubSeq(s, i + 1, i + n), TaskIdChars)
                /\ AllIn(SubSeq(s, i + n + 1, t - 1), Whitespace)
                /\ IsPositiveDuration(SubSeq(s, t, e - 1))

(***************************************************************************)
(* C27.  A message gives a draft exactly when a grammar-valid token of     *)
(* more than 0 minutes starts somewhere in it: a token of 0 minutes before *)
(* such a token is passed over like a malformed one.                       *)
(***************************************************************************)
C27_DraftIffPositiveToken ==
    pdraft.found <=> \E i \in 1 .. Len(pmsg) : PositiveTokenAt(pmsg, i)

(***************************************************************************)
(* C28.  When sync_repo of r1 and sync_repo of r2 have run side by side,   *)
(* their steps interleaved in any way and the code host, the configuration *)
(* and the tasks unchanged meanwhile, the branch, repository, commit and   *)
(* time-log rows are those that running the two one after the other, in    *)
(* either order, would have left.                                          *)
(***************************************************************************)
C28_ParallelAsSerial ==
    (workers # Idle /\ \A rp \in OrchRepoIds : workers.pc[rp] = "done")
    => workers.serial = {<<branches, repos, commits, timeLogs>>}

\* both tasks returned after r2's steps ran between two steps of r1, and the
\* run made commit rows in both repositories
C28_Witness ==
    /\ workers # Idle
    /\ \A rp \in OrchRepoIds : workers.pc[rp] = "done"
    /\ \E i, j, k \in 1 .. Len(workers.trace) :
          /\ i < j /\ j < k
          /\ workers.trace[i] = "r1" /\ workers.trace[j] = "r2"
          /\ workers.trace[k] = "r1"
    /\ \A rp \in OrchRepoIds :
          \E c \in commits : c.branch[1] = rp /\ c \notin workers.start[3]

\* the tasks of which a token of the name is the short id or the external id
TasksNamedBy(name) ==
    {t \in tasks : \E tok \in Tokens(name) :
                      t.user_friendly_id = tok \/ t.clickup_id = tok}

(***************************************************************************)
(* C29.  map_branch_clickup_task_by_name_tokens does not raise.  When a    *)
(* token of the branch name is the short id or the external id of a task,  *)
(* the branch is afterwards linked to such a task and its id is returned;  *)
(* when no token names a task, None is returned and the link is as it was, *)
(* whatever it was.  No other column and no other row changes.             *)
(***************************************************************************)
C29_LinkIsTheNamedTask ==
    last.op = "map_branch" =>
       /\ last.raised = ""
       /\ \A b \in last.before :
             \E x \in branches :
                /\ [x EXCEPT !.clickup_task = b.clickup_task] = b
                /\ x.clickup_task # b.clickup_task => BranchKey(b) = last.branch
                /\ BranchKey(b) = last.branch =>
                      IF TasksNamedBy(b.name) = {}
                      THEN x.clickup_task = b.clickup_task /\ last.ret = NoTask
                      ELSE /\ x.clickup_task \in {t.id : t \in TasksNamedBy(b.name)}
                           /\ last.ret = x.clickup_task
       /\ Cardinality(branches) = Cardinality(last.before)

\* the branch named after the external id of a task got that task; and a
\* branch that no task is named in kept the task the admin gave it
C29_Witness ==
    /\ last.op = "map_branch" /\ last.ret = NoTask
    /\ \E b \in branches :
          /\ BranchKey(b) = last.branch /\ b.clickup_task # NoTask
          /\ TasksNamedBy(b.name) = {}
    /\ \E b \in branches : b.name = Name_ext /\ b.clickup_task = Task_86c2.id

\* the code host has n items and answers every request with the page asked
WellBehaved(remote, n, per_page) ==
    \A p \in DOMAIN remote :
       Len(remote[p]) = Min2(per_page, SetMax({0, n - (p - 1) * per_page}))

(***************************************************************************)
(* C30.  list_branches and list_commits make at most max_pages requests    *)
(* and yield at most per_page * max_pages items, whatever the code host    *)
(* answers, a non-empty page for every request included; the check for a   *)
(* commit of the author makes one request.  Against a code host that pages *)
(* a listing of n items as asked, the requests and the items are those     *)
(* NumRequests and Yielded give.                                           *)
(***************************************************************************)
C30_RequestsBounded ==
    /\ last.op \in {"list_branches", "list_commits"} =>
          /\ last.requests <= last.max_pages
          /\ Len(last.items) <= last.per_page * last.max_pages
          /\ \A n \in 0 .. last.per_page * Len(last.remote) :
                WellBehaved(last.remote, n, last.per_page) =>
                   /\ last.requests = NumRequests(n, last.per_page, last.max_pages)
                   /\ Len(last.items) =
                        Len(Yielded(PageOf(n), last.per_page, last.max_pages, 0))
    /\ last.op = "branch_has_author_commit" =>
          /\ last.requests <= 1
          /\ last.found <=> last.remote[1] # <<>>

\* the code host answered every request with a full page, and the listing
\* stopped after max_pages requests
C30_Witness ==
    /\ last.op = "list_commits"
    /\ \A p \in DOMAIN last.remote : Len(last.remote[p]) = last.per_page
    /\ last.max_pages = MaxPagesTried
    /\ last.requests = last.max_pages
    /\ Len(last.items) = last.per_page * last.max_pages

(***************************************************************************)
(* C31.  After a run of fetch_branches that returned, a branch row of the  *)
(* repository is active exactly when the run's listing names it and the    *)
(* author filter did not pass over it (the check gave true and did not     *)
(* raise); so a row that was active and is still listed, but whose check   *)
(* raised or gave false, is inactive afterwards.                           *)
(***************************************************************************)
C31_ActiveIffSeen ==
    (last.op = "fetch_branches" /\ last.raised = "") =>
       \A b \in branches :
          b.repo = last.repo =>
             (b.is_active <=>
                b.name \in ListedNames(last.listing) \
                             ExcludedNames(last.repo, last.listing,
                                           last.only_user_branches, last.filterErr))

\* the one inactive row of the repository was set inactive by this run, and
\* its branch is listed: the check for a commit of the author raised
C31_Witness ==
    /\ last.op = "fetch_branches" /\ last.raised = ""
    /\ last.ret.inactivated = 1
    /\ Cardinality({b \in branches : b.repo = last.repo /\ ~b.is_active}) = 1
    /\ \E b \in branches :
          /\ b.repo = last.repo /\ ~b.is_active
          /\ b.name \in ListedNames(last.listing)
          /\ b.name \in last.filterErr
    /\ \E b \in branches : b.repo = last.repo /\ b.is_active

(***************************************************************************)
(* C32.  fetch_branches removes no branch row and changes no branch's      *)
(* cursor, no commit row and no time log; a run that returned leaves a row *)
(* that was inactive and that it saw again active, the one row of its      *)
(* name.  sync_branch_commits with since_last requests the commits since   *)
(* the cursor the row has.  So the sync after a branch came back goes on   *)
(* from the cursor the branch had when it was set inactive.                *)
(***************************************************************************)
C32_ReactivationKeepsCursor ==
    /\ [][last'.op = "fetch_branches" =>
            /\ commits' = commits
            /\ timeLogs' = timeLogs
            /\ \A b \in branches :
                  \E x \in branches' :
                     /\ BranchKey(x) = BranchKey(b)
                     /\ x.last_commits_synced_at = b.last_commits_synced_at]_vars
    /\ [][(last'.op = "fetch_branches" /\ last'.raised = "") =>
            \A b \in branches :
               (/\ b.repo = last'.repo /\ ~b.is_active
                /\ b.name \in ListedNames(last'.listing) \
                                ExcludedNames(last'.repo, last'.listing,
                                              last'.only_user_branches, last'.filterErr))
               => /\ Cardinality(BranchRows(branches', BranchKey(b))) = 1
                  /\ \A x \in BranchRows(branches', BranchKey(b)) : x.is_active]_vars
    /\ [][(/\ last'.op = "sync_branch_commits" /\ last'.raised # "ValueError"
            /\ last'.since_last) =>
            \A b \in branches :
               BranchKey(b) = last'.branch => last'.since = b.last_commits_synced_at]_vars

\* a run set active again a row that has a cursor and commit rows
C32_Witness ==
    /\ last.op = "fetch_branches" /\ last.raised = ""
    /\ \E b \in branches :
          /\ b.repo = last.repo /\ b.name \in last.reactivated
          /\ b.is_active
          /\ b.last_commits_synced_at # NoTime
          /\ b.last_commits_synced_at < now
          /\ \E c \in commits : c.branch = BranchKey(b)

(***************************************************************************)
(* C33.  A run of sync_branch_commits whose listing ended without an       *)
(* exception sets the cursor to the time of the run, also when the listing *)
(* stopped at the last page with commits left over.  The commits left over *)
(* are not dated after the new cursor and get no row in that run; and a    *)
(* run with since_last creates no row for a commit dated before the cursor *)
(* it started from, so the commits left over and older than the cursor are *)
(* never asked for again.                                                  *)
(***************************************************************************)
C33_CursorAdvancesPastTheCap ==
    /\ [][(last'.op = "sync_branch_commits" /\ last'.raised = "") =>
            /\ \A b \in branches' :
                  BranchKey(b) = last'.branch => b.last_commits_synced_at = now
            /\ \A sha \in last'.left :
                  /\ ShaDate(sha) <= now
                  /\ HasRecord(commits', last'.branch, sha)
                        => HasRecord(commits, last'.branch, sha)]_vars
    /\ [][(/\ last'.op = "sync_branch_commits" /\ last'.raised = ""
            /\ last'.since_last /\ last'.cursor # NoTime) =>
            \A x \in RemoteCommits(last'.branch[1], last'.branch[2]) :
               ShaDate(x.sha) < last'.cursor =>
                  (HasRecord(commits', last'.branch, x.sha)
                     => HasRecord(commits, last'.branch, x.sha))]_vars

\* the listing stopped at its last page: the cursor is the time of the run
\* and a commit left over, older than the cursor, has no row
C33_Witness ==
    /\ SyncRan
    /\ last.left # {}
    /\ \E b \in branches :
          BranchKey(b) = last.branch /\ b.last_commits_synced_at = now
    /\ \E sha \in last.left :
          ShaDate(sha) < now /\ ~HasRecord(commits, last.branch, sha)

(***************************************************************************)
(* C34.  Two sync_branch_commits tasks of one branch, interleaved in any   *)
(* way: there is at most one commit row of a (branch, sha) and at most one *)
(* time log of a commit.  A task raised IntegrityError exactly when its    *)
(* insert of a time log was refused, and that ended its run; a task whose  *)
(* insert of a commit row was refused went on with the row that was there. *)
(***************************************************************************)
\* the rows of the two tables keep to their unique constraints
OnePerKey ==
    /\ \A c, d \in commits : c.branch = d.branch /\ c.sha = d.sha => c = d
    /\ \A l, m \in timeLogs :
          l.commit[1] = m.commit[1] /\ l.commit[2] = m.commit[2] => l = m
    /\ \A l \in timeLogs : \E c \in commits : CommitKey(c) = l.commit

C34_OneRowAndTheLogLoserRaises ==
    /\ OnePerKey
    /\ \A i \in Racers :
          /\ RaceRuns[i].raised = "IntegrityError" <=> "log" \in RaceRuns[i].lost
          /\ RaceRuns[i].raised # "" => RaceRuns[i].pc = "done"

\* one task lost the insert of the commit row and returned; the other lost
\* the insert of the time log and raised; the commit has its one row and
\* its one time log
C34_Witness ==
    /\ \E i, j \in Racers :
          /\ RaceRuns[i].pc = "done" /\ RaceRuns[i].lost = {"commit"}
          /\ RaceRuns[i].raised = ""
          /\ RaceRuns[j].pc = "done" /\ RaceRuns[j].lost = {"log"}
          /\ RaceRuns[j].raised = "IntegrityError"
    /\ Cardinality(commits) = 1
    /\ Cardinality(timeLogs) = 1

\* as stated: a task with a refused insert, of either table, got an error
C34_LoserGetsAnError ==
    /\ OnePerKey
    /\ \A i \in Racers :
          RaceRuns[i].pc = "done" /\ RaceRuns[i].lost # {} => RaceRuns[i].raised # ""

====
